---- MODULE Spec2Model ----
(***************************************************************************)
(* Model of the change-detection engine (app/services/persistence.py), of  *)
(* the bounded weight-learning service (app/services/weight_learning.py,   *)
(* app/routes/feedback.py), of the alert evaluation                        *)
(* (app/services/listing_alerts.py) and of the ingestion orchestrator      *)
(* (app/services/ingestion.py) of sherlock-homes.                          *)
(*                                                                         *)
(* Encoding of Python values.  An Optional value is a tuple of length 0 or *)
(* 1: None is <<>>, a present value x is <<x>>.  A hex digest is modelled  *)
(* as the 1-tuple of the content that was hashed (sha256 is taken to be    *)
(* collision free); the empty string "" that the hash helpers return for   *)
(* "nothing to hash" is <<>>.  A dict handed over by a provider is a       *)
(* record with the set of keys it holds (`keys`) and one field per         *)
(* well-known key (None when the key is missing).                          *)
(***************************************************************************)
EXTENDS Integers, Sequences, FiniteSets, TLC

VARIABLES
    \* ---- persistence: one PropertyListing row and its history ----
    listing,            \* the PropertyListing row (None or <<row>>)
    snapshot_count,     \* number of ListingSnapshot rows of the listing
    latest_snapshot,    \* newest ListingSnapshot row (None or <<row>>)
    new_listing_events, \* number of ListingEvent rows of type new_listing
    last_events,        \* ListingEvent rows added by the latest upsert call
    upsert_calls,       \* number of upsert_listings calls made so far
    prev_data,          \* argument of the upsert_listings call before that
    last_data,          \* argument of the latest upsert_listings call
    \* ---- _build_events applied to a pair of snapshots ----
    old_snapshot, new_snapshot, events, pc,
    \* ---- weight learning: the feedback and the weights of one user ----
    feedback,           \* ListingFeedback rows of the user: listing -> type
    feature_scores,     \* PropertyListing.feature_scores of every listing
    learned_weights,    \* User.learned_weights (None or <<dict>>)
    result,             \* what the latest recalculate / reset call returned
    recalcs,            \* number of recalculate_user_weights calls so far
    \* ---- alert evaluation: ListingEvent rows and what was alerted ----
    event_details,      \* ListingEvent.details of every event (None or <<dict>>)
    listing_dom,        \* PropertyListing.days_on_market of every listing
    dom_stale_events,   \* number of dom_stale ListingEvent rows per listing
    alert_counts,       \* alerts handed over so far, per event and channel
    immediate_alerts,   \* the immediate list of the latest invocation
    digest_alerts,      \* the digest list of the latest invocation
    scored,             \* what score_listing answered in the latest invocation
    since_time,         \* the watermark of the latest invocation
    alert_runs,         \* number of process_listing_alerts invocations so far
    \* ---- _fetch_summaries: one call against one provider ----
    provider_pages,     \* what the provider answers for every page number
    has_search_page,    \* hasattr(provider, "search_page")
    page,               \* the local variable page
    page_requests,      \* the page numbers requested so far, in order
    summaries,          \* the local list summaries
    batch_counts,       \* the counts handed to on_batch so far, in order
    fetch_pc,           \* "idle", "loop", "returned" or "raised"
    \* ---- _enrich_summaries: one call against one provider ----
    enrich_input,       \* the argument summaries
    supports_details,   \* the argument supports_details
    detail_outcomes,    \* what get_details does for the summary at each index
    task_state,         \* the fetch_detail task of each candidate index
    detail_requests,    \* the identifiers get_details was called with
    detail_results,     \* the local dict detail_results (index -> details)
    detail_calls_made,  \* the local counter detail_calls_made
    callback_calls,     \* number of on_detail_call() calls
    enriched,           \* the returned list (empty until the call returns)
    enrich_pc,          \* "idle", "tasks", "returned", "raised" or "cancelled"
    \* ---- run_ingestion_job: deduplication and ordering of one source ----
    dedup_input,        \* provider_summaries as _fetch_summaries returned them
    price_max,          \* settings.SEARCH_PRICE_MAX
    unique_summaries,   \* the local list unique_summaries
    dedup_pc,           \* "idle", "fetched" or "sorted"
    \* ---- run_ingestion_job ----
    ingestion_state,    \* the global IngestionState object
    job_pc,             \* where the job is: "idle", "construct", "fetch",
                        \* "enrich", "close", "upsert", "alerts" or "done"
    job_runs,           \* number of run_ingestion_job calls so far
    provider_index,     \* position of the loop over providers
    provider_summaries, \* the local list provider_summaries
    provider_enriched,  \* the local list provider_enriched
    propagating,        \* an exception is on its way to the outer handler
    summary_count_total, detail_calls_total, upsert_total,
    all_enriched,       \* the local list all_enriched
    fetched_from,       \* the _fetch_summaries calls: source, items delivered
    details_fetched,    \* per source, the identifiers whose details arrived
    upserted,           \* the upsert_listings calls: source and records
    error_log,          \* the logger.error calls of the run
    alerts_processed,   \* process_listing_alerts was called in this run
    \* ---- upsert_listings on a batch of records of several listings ----
    batch_db,           \* per listing: the row, its snapshots and its events
    batch_input,        \* the batch of the call (None before the call)
    batch_log,          \* per record of the batch: the database before/after
    \* ---- upsert_listings: the boolean keyword columns of one listing ----
    flag_existing,      \* the columns of the row before the call (or None)
    flag_data,          \* the record: its items in dict order
    flag_listing,       \* the columns of the row after the call (or None)
    flag_pc,            \* "idle", "call" or "done"
    \* ---- PropertyMatcher.find_matches: the scoring of one listing ----
    match_listing,      \* the PropertyListing row that the query returned
    match_result,       \* what the call returned or raised
    match_pc,           \* "idle", "call" or "done"
    \* ---- _enrich_summaries: the semaphore of the detail calls ----
    concurrency_setting,\* settings.INGESTION_DETAIL_CONCURRENCY
    permits,            \* the value of the semaphore
    call_state,         \* per task: waiting, in_flight, or how its call ended
    call_elapsed,       \* per task: ticks since its get_details call started
    \* ---- two upsert_listings executions on one listing ----
    race_db,            \* the row, its snapshots and its events
    race_history,       \* the ListingSnapshot rows of the listing, oldest first
    race_data,          \* the record each execution upserts
    race_local,         \* per execution: existing and old_snapshot as it read them
    race_pc,            \* per execution: "read", "write" or "done"
    \* ---- delivery of the alert lists ----
    send_channel,       \* the configured channel: "imessage" or "sms"
    send_calls,         \* the send_listing_alerts calls of the last invocation, in order
    send_raised,        \* whether the last invocation ended in an exception of a send
    \* ---- POST /admin/ingestion/run ----
    is_running,         \* ingestion_state.is_running as the route and the job see it
    job_task,           \* per request: the run_ingestion_job task it created
    trigger_response    \* per request: "none", "started" or "409"

persist_vars == <<listing, snapshot_count, latest_snapshot, new_listing_events,
                  last_events, upsert_calls, prev_data, last_data>>
diff_vars == <<old_snapshot, new_snapshot, events, pc>>
learn_vars == <<feedback, feature_scores, learned_weights, result, recalcs>>
alert_vars == <<event_details, listing_dom, dom_stale_events, alert_counts,
                immediate_alerts, digest_alerts, scored, since_time, alert_runs>>
fetch_vars == <<provider_pages, has_search_page, page, page_requests, summaries,
                batch_counts, fetch_pc>>
enrich_vars == <<enrich_input, supports_details, detail_outcomes, task_state,
                 detail_requests, detail_results, detail_calls_made,
                 callback_calls, enriched, enrich_pc>>
dedup_vars == <<dedup_input, price_max, unique_summaries, dedup_pc>>
job_vars == <<ingestion_state, job_pc, job_runs, provider_index,
              provider_summaries, provider_enriched, propagating,
              summary_count_total, detail_calls_total, upsert_total,
              all_enriched, fetched_from, details_fetched, upserted, error_log,
              alerts_processed>>
ingest_vars == <<fetch_vars, enrich_vars, dedup_vars, job_vars>>
later_vars == <<alert_vars, ingest_vars>>
batch_vars == <<batch_db, batch_input, batch_log>>
flag_vars == <<flag_existing, flag_data, flag_listing, flag_pc>>
match_vars == <<match_listing, match_result, match_pc>>
sem_vars == <<concurrency_setting, permits, call_state, call_elapsed>>
race_vars == <<race_db, race_history, race_data, race_local, race_pc>>
send_vars == <<send_channel, send_calls, send_raised>>
trigger_vars == <<is_running, job_task, trigger_response>>
further_vars == <<batch_vars, flag_vars, match_vars, sem_vars, race_vars,
                  send_vars, trigger_vars>>
earlier_vars == <<persist_vars, diff_vars, learn_vars, later_vars>>
beside_batch_vars == <<earlier_vars, flag_vars, match_vars, sem_vars,
                       race_vars, send_vars, trigger_vars>>
beside_flag_vars == <<earlier_vars, batch_vars, match_vars, sem_vars,
                      race_vars, send_vars, trigger_vars>>
beside_match_vars == <<earlier_vars, batch_vars, flag_vars, sem_vars,
                       race_vars, send_vars, trigger_vars>>
beside_sem_vars == <<earlier_vars, batch_vars, flag_vars, match_vars,
                     race_vars, send_vars, trigger_vars>>
beside_race_vars == <<earlier_vars, batch_vars, flag_vars, match_vars,
                      sem_vars, send_vars, trigger_vars>>
beside_send_vars == <<earlier_vars, batch_vars, flag_vars, match_vars,
                      sem_vars, race_vars, trigger_vars>>
beside_trigger_vars == <<earlier_vars, batch_vars, flag_vars, match_vars,
                         sem_vars, race_vars, send_vars>>
around_alerts_vars == <<persist_vars, diff_vars, learn_vars, ingest_vars>>
beside_send_and_alerts_vars == <<batch_vars, flag_vars, match_vars, sem_vars,
                                race_vars, trigger_vars>>
vars == <<persist_vars, diff_vars, learn_vars, later_vars, further_vars>>

None == <<>>
Some(x) == <<x>>
EmptyStr == <<>>
Sha256(content) == <<content>>

\* How many upsert_listings calls a behaviour makes.
MaxUpserts == 2

--------------------------------------------------------------------------
(* Pure helpers of persistence.py                                          *)

\* float(value); the providers hand over numbers, which float() keeps.
_normalize_price(value) == IF value = None THEN None ELSE Some(value[1])

\* A raw status string is [text, padded, upper]: `text` is its stripped,
\* lower-case content, `padded` says that it carries surrounding whitespace
\* and `upper` that it holds upper-case letters.  `not value` is true of None
\* and of the empty string; strip().lower() leaves `text`.
_normalize_status(value) ==
    IF value = None \/ (value[1].text = "" /\ ~value[1].padded)
    THEN None
    ELSE Some(value[1].text)

\* A text is a sequence of words and blanks (" ").  text.split() keeps the
\* words, " ".join puts one blank between two words.
Words(text) == SelectSeq(text, LAMBDA t : t # " ")

RECURSIVE JoinBlank(_)
JoinBlank(words) ==
    IF Len(words) <= 1 THEN words
    ELSE <<Head(words), " ">> \o JoinBlank(Tail(words))

_hash_text(text) ==
    IF text = None \/ text[1] = <<>>
    THEN EmptyStr
    ELSE Sha256(JoinBlank(Words(text[1])))

\* sorted(photos): insertion sort of a sequence of photo URLs (numbers).
RECURSIVE Insert(_, _)
Insert(x, s) ==
    IF s = <<>> THEN <<x>>
    ELSE IF x <= Head(s) THEN <<x>> \o s
         ELSE <<Head(s)>> \o Insert(x, Tail(s))

RECURSIVE Sorted(_)
Sorted(s) == IF s = <<>> THEN <<>> ELSE Insert(Head(s), Sorted(Tail(s)))

compute_photos_hash(photos) ==
    IF photos = <<>> THEN EmptyStr ELSE Sha256(Sorted(photos))

\* `listing.photos or []`: a missing photo list and an empty one are both <<>>.
_build_snapshot(row) ==
    [price            |-> _normalize_price(row.price),
     listing_status   |-> _normalize_status(row.listing_status),
     days_on_market   |-> row.days_on_market,
     photos_hash      |-> compute_photos_hash(row.photos),
     description_hash |-> _hash_text(row.description)]

\* The digest of the JSON dump of the four fields of the basis.
_snapshot_hash(snapshot) ==
    Sha256([price            |-> snapshot.price,
            listing_status   |-> snapshot.listing_status,
            photos_hash      |-> snapshot.photos_hash,
            description_hash |-> snapshot.description_hash])

\* Python truthiness of an Optional string / of a digest string.
TruthyStatus(s) == s # None /\ s[1] # ""
TruthyHash(h) == h # EmptyStr

Abs(n) == IF n < 0 THEN 0 - n ELSE n

\* amount / old_price * 100, kept exact as the fraction num / den.
Percent(amount, old_price) == [num |-> amount * 100, den |-> old_price]

Event(type, old_value, new_value, details) ==
    [event_type |-> type, old_value |-> old_value, new_value |-> new_value,
     details |-> details]

\* PriceEvents with the percent taken of the new price instead of the old.
PriceEvents_PercentOfNew(old, new) ==
    LET old_price == old.price
        new_price == new.price
    IN  IF old_price # None /\ new_price # None /\ old_price # new_price
        THEN LET delta == new_price[1] - old_price[1]
             IN  IF delta < 0
                 THEN LET amount == Abs(delta)
                          percent == IF new_price[1] # 0
                                     THEN Some(Percent(amount, new_price[1]))
                                     ELSE None
                      IN  <<Event("price_drop",
                                  Some([price |-> old_price[1]]),
                                  Some([price |-> new_price[1]]),
                                  Some([amount |-> amount, percent |-> percent]))>>
                 ELSE <<Event("price_increase",
                              Some([price |-> old_price[1]]),
                              Some([price |-> new_price[1]]),
                              Some([amount |-> delta]))>>
        ELSE <<>>

\* persistence.py 96-121: the price dimension of _build_events.
PriceEvents(old, new) ==
    LET old_price == old.price
        new_price == new.price
    IN  IF old_price # None /\ new_price # None /\ old_price # new_price
        THEN LET delta == new_price[1] - old_price[1]
             IN  IF delta < 0
                 THEN LET amount == Abs(delta)
                          percent == IF old_price[1] # 0
                                     THEN Some(Percent(amount, old_price[1]))
                                     ELSE None
                      IN  <<Event("price_drop",
                                  Some([price |-> old_price[1]]),
                                  Some([price |-> new_price[1]]),
                                  Some([amount |-> amount, percent |-> percent]))>>
                 ELSE <<Event("price_increase",
                              Some([price |-> old_price[1]]),
                              Some([price |-> new_price[1]]),
                              Some([amount |-> delta]))>>
        ELSE <<>>

BackOnMarketFrom == {"pending", "contingent", "sold"}

\* StatusEvents without the test of the old status: every change to active
\* counts as back_on_market.
StatusEvents_AnyToActive(old, new) ==
    LET old_status == old.listing_status
        new_status == new.listing_status
    IN  IF old_status # new_status /\ TruthyStatus(new_status)
        THEN IF new_status = Some("active")
             THEN <<Event("back_on_market",
                          Some([listing_status |-> old_status]),
                          Some([listing_status |-> new_status]), None)>>
             ELSE <<Event("status_change",
                          Some([listing_status |-> old_status]),
                          Some([listing_status |-> new_status]), None)>>
        ELSE <<>>

\* persistence.py 123-143: the status dimension.
StatusEvents(old, new) ==
    LET old_status == old.listing_status
        new_status == new.listing_status
    IN  IF old_status # new_status /\ TruthyStatus(new_status)
        THEN IF new_status = Some("active") /\ old_status # None
                /\ old_status[1] \in BackOnMarketFrom
             THEN <<Event("back_on_market",
                          Some([listing_status |-> old_status]),
                          Some([listing_status |-> new_status]), None)>>
             ELSE <<Event("status_change",
                          Some([listing_status |-> old_status]),
                          Some([listing_status |-> new_status]), None)>>
        ELSE <<>>

\* persistence.py 145-155: the photo dimension.
PhotoEvents(old, new) ==
    LET old_photos == old.photos_hash
        new_photos == new.photos_hash
    IN  IF TruthyHash(old_photos) /\ TruthyHash(new_photos)
           /\ old_photos # new_photos
        THEN <<Event("photo_change",
                     Some([photos_hash |-> old_photos]),
                     Some([photos_hash |-> new_photos]), None)>>
        ELSE <<>>

\* DescriptionEvents without the test that both digests are non-empty.
DescriptionEvents_NoGuard(old, new) ==
    LET old_desc == old.description_hash
        new_desc == new.description_hash
    IN  IF old_desc # new_desc
        THEN <<Event("description_change",
                     Some([description_hash |-> old_desc]),
                     Some([description_hash |-> new_desc]), None)>>
        ELSE <<>>

\* persistence.py 157-167: the description dimension.
DescriptionEvents(old, new) ==
    LET old_desc == old.description_hash
        new_desc == new.description_hash
    IN  IF TruthyHash(old_desc) /\ TruthyHash(new_desc) /\ old_desc # new_desc
        THEN <<Event("description_change",
                     Some([description_hash |-> old_desc]),
                     Some([description_hash |-> new_desc]), None)>>
        ELSE <<>>

\* _build_events that diffs a first snapshot against an empty one instead of
\* reporting a new listing.
_build_events_NoNewListing(old, new) ==
    LET empty == [price |-> None, listing_status |-> None, days_on_market |-> None,
                  photos_hash |-> EmptyStr, description_hash |-> EmptyStr]
        o == IF old = None THEN empty ELSE old[1]
    IN  PriceEvents(o, new) \o StatusEvents(o, new)
        \o PhotoEvents(o, new) \o DescriptionEvents(o, new)

\* _build_events(listing_id, old_snapshot, new_snapshot); old is None or
\* <<snapshot_data>>.  A stored snapshot_data always has its five keys, so
\* `not old_snapshot` is true of None only.
_build_events(old, new) ==
    IF old = None
    THEN <<Event("new_listing", None,
                 Some([price |-> new.price,
                       listing_status |-> new.listing_status]), None)>>
    ELSE PriceEvents(old[1], new) \o StatusEvents(old[1], new)
         \o PhotoEvents(old[1], new) \o DescriptionEvents(old[1], new)

--------------------------------------------------------------------------
(* upsert_listings                                                         *)

Get(data, k) == IF k \in data.keys THEN data[k] ELSE None

\* persistence.py 280-295: PropertyListing(**record_attrs); a column the
\* record does not mention is NULL.
CreatedRow(data) ==
    [price          |-> Get(data, "price"),
     listing_status |-> Get(data, "listing_status"),
     days_on_market |-> Get(data, "days_on_market"),
     photos         |-> IF "photos" \in data.keys THEN data.photos ELSE <<>>,
     description    |-> Get(data, "description")]

\* persistence.py 254-277: setattr for every key of the record; `photos`
\* only when the new list is not empty.
UpdatedRow(row, data) ==
    [price          |-> IF "price" \in data.keys THEN data.price ELSE row.price,
     listing_status |-> IF "listing_status" \in data.keys
                        THEN data.listing_status ELSE row.listing_status,
     days_on_market |-> IF "days_on_market" \in data.keys
                        THEN data.days_on_market ELSE row.days_on_market,
     photos         |-> IF "photos" \in data.keys /\ data.photos # <<>>
                        THEN data.photos ELSE row.photos,
     description    |-> IF "description" \in data.keys
                        THEN data.description ELSE row.description]

\* SnapshotChanged with the comparison of the hashes inverted.
SnapshotChanged_Inverted(old, hash) == old = None \/ old[1].snapshot_hash = hash

\* persistence.py 304: `not old_snapshot or old_snapshot.snapshot_hash !=
\* snapshot_hash`.
SnapshotChanged(old, hash) == old = None \/ old[1].snapshot_hash # hash

\* The database as upsert_listings sees it.
Db(l, n, s, e) ==
    [listing |-> l, snapshot_count |-> n, latest_snapshot |-> s,
     new_listing_events |-> e, added |-> <<>>]

CountType(evs, type) == Len(SelectSeq(evs, LAMBDA ev : ev.event_type = type))

\* persistence.py 183-332: the body of the loop for one record.  Every
\* record of the model carries the same (source, source_listing_id), so the
\* first lookup finds the row whenever there is one.  `url` is NOT NULL
\* (models/listing.py 31): flushing a new row without it raises, and the
\* except branch rolls the record back.
UpsertOne(db, data) ==
    IF Get(data, "address") = None
    THEN db
    ELSE LET existing == db.listing
             old == IF existing # None THEN db.latest_snapshot ELSE None
         IN  IF existing = None /\ ~("url" \in data.keys)
             THEN db
             ELSE LET row == IF existing # None
                             THEN UpdatedRow(existing[1], data)
                             ELSE CreatedRow(data)
                      snapshot_data == _build_snapshot(row)
                      snapshot_hash == _snapshot_hash(snapshot_data)
                  IN  IF SnapshotChanged(old, snapshot_hash)
                      THEN LET evs == _build_events(
                                   IF old # None THEN Some(old[1].snapshot_data)
                                   ELSE None, snapshot_data)
                           IN  [listing |-> Some(row),
                                snapshot_count |-> db.snapshot_count + 1,
                                latest_snapshot |->
                                    Some([snapshot_hash |-> snapshot_hash,
                                          snapshot_data |-> snapshot_data]),
                                new_listing_events |-> db.new_listing_events
                                    + CountType(evs, "new_listing"),
                                added |-> db.added \o evs]
                      ELSE [db EXCEPT !.listing = Some(row)]

RECURSIVE UpsertAll(_, _)
UpsertAll(db, listings) ==
    IF listings = <<>> THEN db
    ELSE UpsertAll(UpsertOne(db, Head(listings)), Tail(listings))

\* ---- the records the providers hand over ----
Address == "138 Frost St"
Url == "https://example.com/1"
AllKeys == {"address", "url", "price", "listing_status", "days_on_market",
            "photos", "description"}

Raw(text, padded, upper) == [text |-> text, padded |-> padded, upper |-> upper]

PriceVals == {None, Some(100), Some(200)}
StatusVals == {None, Some(Raw("active", FALSE, FALSE)),
               Some(Raw("pending", TRUE, TRUE))}
PhotoVals == {<<>>, <<2, 1>>, <<3>>}
DescVals == {None, Some(<<"a", " ", " ", "b">>), Some(<<"c">>)}

Record(keys, price, status, dom, photos, desc) ==
    [keys |-> keys,
     address |-> IF "address" \in keys THEN Some(Address) ELSE None,
     url |-> IF "url" \in keys THEN Some(Url) ELSE None,
     price |-> price, listing_status |-> status, days_on_market |-> dom,
     photos |-> photos, description |-> desc]

FullRecords ==
    {Record(AllKeys, p, s, Some(7), ph, d) :
        p \in PriceVals, s \in StatusVals, ph \in PhotoVals, d \in DescVals}

\* Records that leave keys out, or that differ from a full record only in
\* what the snapshot normalises away or does not hash.
PartialRecords ==
    {Record({"address", "url"}, None, None, None, <<>>, None),
     Record({"address", "url", "price"}, Some(100), None, None, <<>>, None),
     Record({"address", "url", "days_on_market"}, None, None, Some(8), <<>>, None),
     Record({"address", "url", "listing_status"}, None,
            Some(Raw("pending", FALSE, FALSE)), None, <<>>, None),
     Record({"address", "url", "photos"}, None, None, None, <<1, 2>>, None),
     Record({"address", "url", "description"}, None, None, None, <<>>,
            Some(<<"a", " ", "b">>)),
     Record(AllKeys \ {"url"}, Some(100), Some(Raw("active", FALSE, FALSE)),
            Some(7), <<3>>, Some(<<"c">>)),
     Record(AllKeys \ {"address"}, Some(100), Some(Raw("active", FALSE, FALSE)),
            Some(7), <<3>>, Some(<<"c">>))}

Records == FullRecords \cup PartialRecords

\* scripts/seed_data.py adds PropertyListing rows without any snapshot.
SeededRow ==
    [price |-> Some(100), listing_status |-> Some(Raw("active", FALSE, FALSE)),
     days_on_market |-> None, photos |-> <<3>>, description |-> Some(<<"c">>)]

NoCall == <<>>

PersistInit ==
    /\ listing \in {None, Some(SeededRow)}
    /\ snapshot_count = 0
    /\ latest_snapshot = None
    /\ new_listing_events = 0
    /\ last_events = <<>>
    /\ upsert_calls = 0
    /\ prev_data = NoCall
    /\ last_data = NoCall

\* upsert_listings(listings) with a list of one record.
upsert_listings(listings) ==
    /\ upsert_calls < MaxUpserts
    /\ LET db == UpsertAll(Db(listing, snapshot_count, latest_snapshot,
                              new_listing_events), listings)
       IN  /\ listing' = db.listing
           /\ snapshot_count' = db.snapshot_count
           /\ latest_snapshot' = db.latest_snapshot
           /\ new_listing_events' = db.new_listing_events
           /\ last_events' = db.added
    /\ upsert_calls' = upsert_calls + 1
    /\ prev_data' = last_data
    /\ last_data' = Some(listings)
    /\ UNCHANGED <<diff_vars, further_vars, learn_vars, later_vars>>

\* No user has rated anything and no weight-learning call has been made.
NoFeedback == <<>>
Returned(call, raised, weights_updated, message, success) ==
    [call |-> call, raised |-> raised, weights_updated |-> weights_updated,
     message |-> message, success |-> success]
NoResult == Returned("", "", FALSE, "", FALSE)

\* No event, no listing and no alert invocation.
AlertIdle ==
    /\ event_details = <<>>
    /\ listing_dom = <<>>
    /\ dom_stale_events = <<>>
    /\ alert_counts = <<>>
    /\ immediate_alerts = {}
    /\ digest_alerts = {}
    /\ scored = <<>>
    /\ since_time = 0
    /\ alert_runs = 0

\* No _fetch_summaries call.
FetchIdle ==
    /\ provider_pages = <<>>
    /\ has_search_page = FALSE
    /\ page = 0
    /\ page_requests = <<>>
    /\ summaries = <<>>
    /\ batch_counts = <<>>
    /\ fetch_pc = "idle"

\* No _enrich_summaries call.
EnrichIdle ==
    /\ enrich_input = <<>>
    /\ supports_details = FALSE
    /\ detail_outcomes = <<>>
    /\ task_state = <<>>
    /\ detail_requests = {}
    /\ detail_results = <<>>
    /\ detail_calls_made = 0
    /\ callback_calls = 0
    /\ enriched = <<>>
    /\ enrich_pc = "idle"

\* No summaries to deduplicate.
DedupIdle ==
    /\ dedup_input = <<>>
    /\ price_max = None
    /\ unique_summaries = <<>>
    /\ dedup_pc = "idle"

\* The IngestionState object as the module creates it; is_running is the
\* flag that run_ingestion_job sets and the admin route reads.
IsRunningDefault == FALSE
FreshIngestionState ==
    [is_running |-> IsRunningDefault,
     last_run_start_time |-> None,
     last_run_end_time |-> None,
     last_run_summary_count |-> 0,
     last_run_detail_calls |-> 0,
     last_run_upsert_count |-> 0,
     last_run_error |-> None]

\* No run_ingestion_job call.
JobIdle ==
    /\ ingestion_state = FreshIngestionState
    /\ job_pc = "idle"
    /\ job_runs = 0
    /\ provider_index = 0
    /\ provider_summaries = <<>>
    /\ provider_enriched = <<>>
    /\ propagating = FALSE
    /\ summary_count_total = 0
    /\ detail_calls_total = 0
    /\ upsert_total = 0
    /\ all_enriched = <<>>
    /\ fetched_from = <<>>
    /\ details_fetched = <<>>
    /\ upserted = <<>>
    /\ error_log = <<>>
    /\ alerts_processed = FALSE

IngestIdle == FetchIdle /\ EnrichIdle /\ DedupIdle /\ JobIdle

LaterIdle == AlertIdle /\ IngestIdle

LearnIdle ==
    /\ feedback = NoFeedback
    /\ feature_scores = <<>>
    /\ learned_weights = None
    /\ result = NoResult
    /\ recalcs = 0

DiffIdle ==
    /\ old_snapshot = None
    /\ new_snapshot = _build_snapshot(SeededRow)
    /\ events = <<>>
    /\ pc = "idle"

\* No upsert_listings call on a batch.
BatchIdle ==
    /\ batch_db = <<>>
    /\ batch_input = None
    /\ batch_log = <<>>

\* No upsert_listings call that looks at the keyword columns.
FlagIdle ==
    /\ flag_existing = None
    /\ flag_data = <<>>
    /\ flag_listing = None
    /\ flag_pc = "idle"

\* No find_matches call.
MatchIdle ==
    /\ match_listing = <<>>
    /\ match_result = <<>>
    /\ match_pc = "idle"

\* No fetch_detail task.
SemIdle ==
    /\ concurrency_setting = 1
    /\ permits = 1
    /\ call_state = <<>>
    /\ call_elapsed = <<>>

\* No concurrent upsert_listings executions.
RaceIdle ==
    /\ race_db = <<>>
    /\ race_history = <<>>
    /\ race_data = <<>>
    /\ race_local = <<>>
    /\ race_pc = <<>>

\* No alert delivery.
SendIdle ==
    /\ send_channel = "sms"
    /\ send_calls = <<>>
    /\ send_raised = FALSE

\* No request to the ingestion route.
TriggerIdle ==
    /\ is_running = FALSE
    /\ job_task = <<>>
    /\ trigger_response = <<>>

FurtherIdle ==
    /\ BatchIdle
    /\ FlagIdle
    /\ MatchIdle
    /\ SemIdle
    /\ RaceIdle
    /\ SendIdle
    /\ TriggerIdle

UpsertInit == PersistInit /\ DiffIdle /\ LearnIdle /\ LaterIdle /\ FurtherIdle
UpsertNext == \E data \in Records : upsert_listings(<<data>>)
SpecUpsert == UpsertInit /\ [][UpsertNext]_vars

--------------------------------------------------------------------------
(* _build_events on its own: every pair of snapshots of a small domain     *)

DiffPrices == {None, Some(0 - 100), Some(0), Some(100), Some(200)}
DiffStatuses == {None, Some("active"), Some("pending"), Some("contingent"),
                 Some("sold")}
DiffPhotoHashes == {EmptyStr, compute_photos_hash(<<2, 1>>),
                    compute_photos_hash(<<3>>)}
DiffDescHashes == {EmptyStr, _hash_text(Some(<<"a", " ", "b">>)),
                   _hash_text(Some(<<"c">>))}

DiffSnapshots ==
    [price : DiffPrices, listing_status : DiffStatuses,
     days_on_market : {Some(7)}, photos_hash : DiffPhotoHashes,
     description_hash : DiffDescHashes]

PersistIdle ==
    /\ listing = None
    /\ snapshot_count = 0
    /\ latest_snapshot = None
    /\ new_listing_events = 0
    /\ last_events = <<>>
    /\ upsert_calls = 0
    /\ prev_data = NoCall
    /\ last_data = NoCall

DiffInit ==
    /\ old_snapshot \in {None} \cup {Some(sn) : sn \in DiffSnapshots}
    /\ new_snapshot \in DiffSnapshots
    /\ events = <<>>
    /\ pc = "start"
    /\ PersistIdle
    /\ LearnIdle
    /\ LaterIdle
    /\ FurtherIdle

BuildEvents ==
    /\ pc = "start"
    /\ events' = _build_events(old_snapshot, new_snapshot)
    /\ pc' = "done"
    /\ UNCHANGED <<old_snapshot, new_snapshot, persist_vars, learn_vars,
                   later_vars, further_vars>>

SpecDiff == DiffInit /\ [][BuildEvents]_vars

--------------------------------------------------------------------------
(* Properties of the change-detection engine                               *)

CountIn(evs, types) == Len(SelectSeq(evs, LAMBDA ev : ev.event_type \in types))
PriceTypes == {"price_drop", "price_increase"}
StatusTypes == {"status_change", "back_on_market"}
DiffTypes == PriceTypes \cup StatusTypes \cup {"photo_change", "description_change"}

\* The record of the latest call (a call passes a list of one record).
LastRecord == last_data[1][1]
HasAddressAndUrl(data) == {"address", "url"} \subseteq data.keys

\* C1: when upsert_listings is called twice with the same record (address
\* and url present), the second call adds no snapshot and no event, and
\* after these first two calls the listing has exactly one snapshot and
\* exactly one new_listing event.
C1_SameRecordTwice ==
    (upsert_calls >= 2 /\ prev_data = last_data /\ HasAddressAndUrl(LastRecord))
    => /\ last_events = <<>>
       /\ new_listing_events = 1
       /\ upsert_calls = 2 => snapshot_count = 1

C1_Witness ==
    /\ upsert_calls = 2 /\ prev_data = last_data
    /\ HasAddressAndUrl(LastRecord)
    /\ LastRecord.price = Some(200)
    /\ snapshot_count = 1 /\ new_listing_events = 1

\* The record is neither skipped (no address) nor rolled back (a new row
\* without url).
Persisted(row, data) ==
    "address" \in data.keys /\ (row # None \/ "url" \in data.keys)

\* C2: an upsert of a listing that has no prior snapshot creates one
\* snapshot and emits exactly one event, a new_listing event, and no
\* diff-type event, whatever the fields of the record.
C2_FirstSnapshotStep ==
    (/\ upsert_calls' = upsert_calls + 1
     /\ latest_snapshot = None
     /\ Persisted(listing, last_data'[1][1]))
    => /\ snapshot_count' = snapshot_count + 1
       /\ latest_snapshot' # None
       /\ Len(last_events') = 1
       /\ last_events'[1].event_type = "new_listing"
       /\ CountIn(last_events', DiffTypes) = 0
       /\ new_listing_events' = new_listing_events + 1

C2_FirstSnapshot == [][C2_FirstSnapshotStep]_vars

C2_Witness ==
    /\ upsert_calls = 1 /\ snapshot_count = 1
    /\ Len(last_events) = 1 /\ last_events[1].event_type = "new_listing"
    /\ LastRecord.price = Some(200)
    /\ LastRecord.listing_status = Some(Raw("pending", TRUE, TRUE))

FiveStatuses == {None, Some("active"), Some("pending"), Some("contingent"),
                 Some("sold")}

\* The status event that the claim expects for old -> new.
ExpectedStatusType(old_status, new_status) ==
    IF new_status = Some("active")
       /\ old_status \in {Some("pending"), Some("contingent"), Some("sold")}
    THEN "back_on_market" ELSE "status_change"

DiffDone == pc = "done" /\ old_snapshot # None

\* C3 as stated: for every ordered pair of distinct statuses of {active,
\* pending, contingent, sold, null} exactly one status event is emitted,
\* back_on_market when new is active and old is pending, contingent or
\* sold, status_change otherwise; for equal statuses none.
C3_Original ==
    DiffDone =>
        LET o == old_snapshot[1].listing_status
            n == new_snapshot.listing_status
        IN  (o \in FiveStatuses /\ n \in FiveStatuses) =>
               IF o = n
               THEN CountIn(events, StatusTypes) = 0
               ELSE /\ CountIn(events, StatusTypes) = 1
                    /\ CountIn(events, {ExpectedStatusType(o, n)}) = 1

\* C3 amended: the same for every ordered pair of distinct statuses whose
\* new status is not null; when the new status is null (or the statuses are
\* equal) no status event is emitted.
C3_StatusEvents ==
    DiffDone =>
        LET o == old_snapshot[1].listing_status
            n == new_snapshot.listing_status
        IN  (o \in FiveStatuses /\ n \in FiveStatuses) =>
               IF o = n \/ n = None
               THEN CountIn(events, StatusTypes) = 0
               ELSE /\ CountIn(events, StatusTypes) = 1
                    /\ CountIn(events, {ExpectedStatusType(o, n)}) = 1

C3_Witness ==
    /\ DiffDone
    /\ old_snapshot[1].listing_status = Some("sold")
    /\ new_snapshot.listing_status = Some("active")
    /\ CountIn(events, {"back_on_market"}) = 1

PriceEventsOf(evs) == SelectSeq(evs, LAMBDA ev : ev.event_type \in PriceTypes)

\* What the claim says of the one price event ev for old -> new (numbers).
\* percent = amount / old * 100 is compared as a fraction.
PriceEventAsClaimed(ev, old, new) ==
    IF new < old
    THEN /\ ev.event_type = "price_drop"
         /\ ev.details[1].amount = Abs(new - old)
         /\ ev.details[1].percent # None
         /\ ev.details[1].percent[1].den # 0
         /\ ev.details[1].percent[1].num * old
              = Abs(new - old) * 100 * ev.details[1].percent[1].den
    ELSE /\ ev.event_type = "price_increase"
         /\ ev.details[1].amount = new - old

\* C4 as stated: for any prior and new snapshot whose prices differ exactly
\* one of price_drop / price_increase is emitted: price_drop when new < old
\* with amount = |new - old| and percent = amount / old * 100,
\* price_increase when new > old with amount = new - old.
C4_Original ==
    DiffDone =>
        LET o == old_snapshot[1].price
            n == new_snapshot.price
        IN  o # n =>
              /\ Len(PriceEventsOf(events)) = 1
              /\ o # None /\ n # None
              /\ PriceEventAsClaimed(PriceEventsOf(events)[1], o[1], n[1])

\* C4 amended: the same for any two snapshots whose prices are both
\* non-null and differ, the percent of a drop being null when the old price
\* is 0; when either price is null no price event is emitted.
C4_PriceEvents ==
    DiffDone =>
        LET o == old_snapshot[1].price
            n == new_snapshot.price
        IN  IF o # None /\ n # None /\ o # n
            THEN /\ Len(PriceEventsOf(events)) = 1
                 /\ IF n[1] < o[1] /\ o[1] = 0
                    THEN LET ev == PriceEventsOf(events)[1]
                         IN  /\ ev.event_type = "price_drop"
                             /\ ev.details[1].amount = Abs(n[1] - o[1])
                             /\ ev.details[1].percent = None
                    ELSE PriceEventAsClaimed(PriceEventsOf(events)[1], o[1], n[1])
            ELSE Len(PriceEventsOf(events)) = 0

C4_Witness ==
    /\ DiffDone
    /\ old_snapshot[1].price = Some(200)
    /\ new_snapshot.price = Some(100)
    /\ CountIn(events, {"price_drop"}) = 1
    /\ PriceEventsOf(events)[1].details[1].percent = Some([num |-> 10000, den |-> 200])

\* A snapshot was added by this step to a listing that had one before.
AddsLaterSnapshot ==
    latest_snapshot # None /\ snapshot_count' = snapshot_count + 1

\* The hash of the row as it is after this step differs from the prior
\* snapshot's.
HashChanges ==
    /\ upsert_calls' = upsert_calls + 1
    /\ latest_snapshot # None
    /\ Persisted(listing, last_data'[1][1])
    /\ _snapshot_hash(_build_snapshot(listing'[1]))
         # latest_snapshot[1].snapshot_hash

\* C5 as stated: when a prior snapshot exists and the hash has changed, the
\* upsert creates a snapshot and emits exactly one event for each of the
\* four dimensions whose value differs, none for an equal dimension, hence
\* at least one event.
C5_OriginalStep ==
    HashChanges =>
        LET o == latest_snapshot[1].snapshot_data
            n == latest_snapshot'[1].snapshot_data
            evs == last_events'
        IN  /\ AddsLaterSnapshot
            /\ CountIn(evs, PriceTypes) = IF o.price # n.price THEN 1 ELSE 0
            /\ CountIn(evs, StatusTypes)
                 = IF o.listing_status # n.listing_status THEN 1 ELSE 0
            /\ CountIn(evs, {"photo_change"})
                 = IF o.photos_hash # n.photos_hash THEN 1 ELSE 0
            /\ CountIn(evs, {"description_change"})
                 = IF o.description_hash # n.description_hash THEN 1 ELSE 0
            /\ Len(evs) >= 1

C5_Original == [][C5_OriginalStep]_vars

\* C5 amended: when a prior snapshot exists and the hash has changed, the
\* upsert creates a snapshot and emits exactly one event for each dimension
\* whose value differs and is present (price: old and new both non-null;
\* status: new status non-empty; photo hash and description hash: old and
\* new both non-empty), and no other event; a new non-first snapshot can
\* therefore come with no event at all.
C5_DiffStep ==
    HashChanges =>
        LET o == latest_snapshot[1].snapshot_data
            n == latest_snapshot'[1].snapshot_data
            evs == last_events'
            price_n == IF o.price # n.price /\ o.price # None /\ n.price # None
                       THEN 1 ELSE 0
            status_n == IF o.listing_status # n.listing_status
                           /\ n.listing_status # None /\ n.listing_status # Some("")
                        THEN 1 ELSE 0
            photo_n == IF o.photos_hash # n.photos_hash
                          /\ o.photos_hash # EmptyStr /\ n.photos_hash # EmptyStr
                       THEN 1 ELSE 0
            desc_n == IF o.description_hash # n.description_hash
                         /\ o.description_hash # EmptyStr
                         /\ n.description_hash # EmptyStr
                      THEN 1 ELSE 0
        IN  /\ AddsLaterSnapshot
            /\ n = _build_snapshot(listing'[1])
            /\ CountIn(evs, PriceTypes) = price_n
            /\ CountIn(evs, StatusTypes) = status_n
            /\ CountIn(evs, {"photo_change"}) = photo_n
            /\ CountIn(evs, {"description_change"}) = desc_n
            /\ Len(evs) = price_n + status_n + photo_n + desc_n

C5_Diff == [][C5_DiffStep]_vars

C5_Witness ==
    /\ snapshot_count = 2
    /\ Len(last_events) = 4
    /\ CountIn(last_events, {"price_drop"}) = 1
    /\ CountIn(last_events, {"back_on_market"}) = 1
    /\ CountIn(last_events, {"photo_change"}) = 1
    /\ CountIn(last_events, {"description_change"}) = 1

--------------------------------------------------------------------------
(* Bounded weight learning (app/services/weight_learning.py).              *)
(* A multiplier or a delta is an integer number of thousandths, a weight   *)
(* an integer number of hundredths.  Every delta is a multiple of 0.05, so *)
(* round(multiplier, 3) keeps the value it is given.                       *)

DELTA_PER_SIGNAL == 50
MAX_DELTA_PER_RECALC == 500
MIN_SIGNALS_BEFORE_LEARNING == 5
MIN_LIKES_REQUIRED == 3
MIN_DISLIKES_REQUIRED == 2
WEIGHT_MULTIPLIER_MIN == 500
WEIGHT_MULTIPLIER_MAX == 2000
TOP_CRITERIA_COUNT == 3
DefaultMultiplier == 1000
TEST_USER_ID == 1

\* How many recalculate_user_weights calls a behaviour makes.
MaxRecalcs == 2
\* How many recalculations the long-standing user of LearnInit has behind.
PriorRecalcs == 10

Users == {TEST_USER_ID}
UserIds == {TEST_USER_ID, TEST_USER_ID + 1}
ListingIds == {"l1", "l2", "l3", "l4", "l5"}
FeedbackType == {"like", "dislike", "neutral"}

Min(a, b) == IF a < b THEN a ELSE b
Max(a, b) == IF a > b THEN a ELSE b

\* One item of the feature_scores JSON: a {"score", "weight"} dict, or a
\* bare number (the shape PropertyMatcher._get_feature_breakdown produces).
DictEntry(criterion, score, weight) ==
    [criterion |-> criterion, dict |-> TRUE, score |-> score, weight |-> weight]
FlatEntry(criterion, number) ==
    [criterion |-> criterion, dict |-> FALSE, score |-> number, weight |-> 0]

\* `if not listing.feature_scores`: NULL and {} are both falsy.
Scored(scores) == scores # None /\ scores[1] # <<>>

\* (score / 10) * weight, kept tenfold so that it stays an integer.
Contribution(data) == IF data.weight > 0 THEN data.score * data.weight ELSE 0

\* list.sort(key=contribution, reverse=True): stable, descending.
RECURSIVE InsertDesc(_, _)
InsertDesc(x, s) ==
    IF s = <<>> THEN <<x>>
    ELSE IF Head(s).contribution <= x.contribution THEN <<x>> \o s
    ELSE <<Head(s)>> \o InsertDesc(x, Tail(s))

RECURSIVE SortDesc(_)
SortDesc(s) == IF s = <<>> THEN <<>> ELSE InsertDesc(Head(s), SortDesc(Tail(s)))

_get_listing_top_criteria(scores, count) ==
    LET items == IF scores = None THEN <<>> ELSE scores[1]
        dicts == SelectSeq(items, LAMBDA data : data.dict)
        contributions ==
            [i \in 1..Len(dicts) |->
                [criterion |-> dicts[i].criterion,
                 contribution |-> Contribution(dicts[i])]]
        sorted == SortDesc(contributions)
    IN  SubSeq(sorted, 1, Min(count, Len(sorted)))

TopNames(scores) ==
    LET top == _get_listing_top_criteria(scores, TOP_CRITERIA_COUNT)
    IN  {top[i].criterion : i \in 1..Len(top)}

_apply_bounded_delta_Unbounded(current_multiplier, delta) ==
    current_multiplier + delta

_apply_bounded_delta(current_multiplier, delta) ==
    Max(WEIGHT_MULTIPLIER_MIN,
        Min(WEIGHT_MULTIPLIER_MAX, current_multiplier + delta))

\* The rated and scored listings of one feedback type.
Signals(fb, scores, type) ==
    {l \in DOMAIN fb : Scored(scores[l]) /\ fb[l] = type}

Hits(ls, scores, criterion) ==
    Cardinality({l \in ls : criterion \in TopNames(scores[l])})

\* The three minimum-signal checks; "" when all of them pass.
Gate_NoDislikeCheck(likes, dislikes) ==
    IF likes + dislikes < MIN_SIGNALS_BEFORE_LEARNING THEN "Need total signals"
    ELSE IF likes < MIN_LIKES_REQUIRED THEN "Need likes"
    ELSE ""

Gate_NoLikeCheck(likes, dislikes) ==
    IF likes + dislikes < MIN_SIGNALS_BEFORE_LEARNING THEN "Need total signals"
    ELSE IF dislikes < MIN_DISLIKES_REQUIRED THEN "Need dislikes"
    ELSE ""

Gate(likes, dislikes) ==
    IF likes + dislikes < MIN_SIGNALS_BEFORE_LEARNING THEN "Need total signals"
    ELSE IF likes < MIN_LIKES_REQUIRED THEN "Need likes"
    ELSE IF dislikes < MIN_DISLIKES_REQUIRED THEN "Need dislikes"
    ELSE ""

WeightLearningResult(updated, message, adjusted, learned) ==
    [weights_updated |-> updated, message |-> message,
     criteria_adjusted |-> adjusted, learned_weights |-> learned]

NoDeltas == <<>>

calculate_weight_updates(fb, scores) ==
    LET likes == Signals(fb, scores, "like")
        dislikes == Signals(fb, scores, "dislike")
        gate == Gate(Cardinality(likes), Cardinality(dislikes))
        touched == UNION {TopNames(scores[l]) : l \in likes \cup dislikes}
        criteria_signal_counts ==
            [c \in touched |-> Hits(likes, scores, c) + Hits(dislikes, scores, c)]
        criteria_deltas ==
            [c \in touched |->
                Max(0 - MAX_DELTA_PER_RECALC,
                    Min(MAX_DELTA_PER_RECALC,
                        DELTA_PER_SIGNAL * Hits(likes, scores, c)
                          - DELTA_PER_SIGNAL * Hits(dislikes, scores, c)))]
        criteria_adjusted == {c \in touched : Abs(criteria_deltas[c]) > 1}
        learned ==
            [c \in criteria_adjusted |->
                [multiplier |->
                     _apply_bounded_delta(DefaultMultiplier, criteria_deltas[c]),
                 signal_count |-> criteria_signal_counts[c]]]
    IN  IF gate # ""
        THEN [deltas |-> NoDeltas,
              result |-> WeightLearningResult(FALSE, gate, {}, <<>>)]
        ELSE [deltas |-> criteria_deltas,
              result |-> WeightLearningResult(TRUE, "Calculated weight adjustments",
                                              criteria_adjusted, learned)]

\* `user.learned_weights or {}`
StoredWeights(lw) == IF lw = None THEN <<>> ELSE lw[1]

\* result.learned_weights[criterion] of a criterion whose net delta is 0
\* (it has a delta but no LearnedWeight) raises KeyError.
RaisesKeyError(deltas, learned) ==
    \E criterion \in DOMAIN deltas : criterion \notin DOMAIN learned

\* UpdatedWeights that starts every multiplier from 1.0 again.
UpdatedWeights_FromDefault(existing_weights, deltas, learned) ==
    [criterion \in DOMAIN deltas \cup DOMAIN existing_weights |->
        IF criterion \in DOMAIN deltas
        THEN [multiplier |->
                  _apply_bounded_delta(DefaultMultiplier, deltas[criterion]),
              signal_count |-> learned[criterion].signal_count]
        ELSE existing_weights[criterion]]

UpdatedWeights_OnlyThisUpdate(existing_weights, deltas, learned) ==
    [criterion \in DOMAIN deltas |->
        [multiplier |->
             _apply_bounded_delta(
                 IF criterion \in DOMAIN existing_weights
                 THEN existing_weights[criterion].multiplier
                 ELSE DefaultMultiplier,
                 deltas[criterion]),
         signal_count |-> learned[criterion].signal_count]]

\* The dict recalculate_user_weights persists: a new entry per delta, the
\* stored entry for every other criterion.  The last_updated timestamp of
\* an entry is left out: no decision of the service reads it.
UpdatedWeights(existing_weights, deltas, learned) ==
    [criterion \in DOMAIN deltas \cup DOMAIN existing_weights |->
        IF criterion \in DOMAIN deltas
        THEN [multiplier |->
                  _apply_bounded_delta(
                      IF criterion \in DOMAIN existing_weights
                      THEN existing_weights[criterion].multiplier
                      ELSE DefaultMultiplier,
                      deltas[criterion]),
              signal_count |-> learned[criterion].signal_count]
        ELSE existing_weights[criterion]]

\* recalculate_user_weights as a function of what it reads: the stored
\* weights after the call and what the caller gets back.
Recalculated(user_id, lw, fb, scores) ==
    LET call == "recalculate_user_weights"
        calc == calculate_weight_updates(fb, scores)
    IN  IF user_id \notin Users
        THEN [stored |-> lw,
              returned |-> Returned(call, "", FALSE, "User not found", FALSE)]
        ELSE IF ~calc.result.weights_updated
        THEN [stored |-> lw,
              returned |-> Returned(call, "", FALSE, calc.result.message, FALSE)]
        ELSE IF RaisesKeyError(calc.deltas, calc.result.learned_weights)
        THEN [stored |-> lw,
              returned |-> Returned(call, "KeyError", FALSE, "", FALSE)]
        ELSE [stored |-> Some(UpdatedWeights(StoredWeights(lw), calc.deltas,
                                             calc.result.learned_weights)),
              returned |-> Returned(call, "", TRUE, calc.result.message, FALSE)]

ResetWeights_KeepsStored(lw) == lw

\* `user.learned_weights = None`
ResetWeights(lw) == None

\* Weights of the repository's test configuration (hundredths).
BaseWeights ==
    [natural_light |-> 1000, outdoor_space |-> 900, character_soul |-> 800,
     kitchen_quality |-> 700, location_quiet |-> 600, office_space |-> 400]

\* round(n / d) of Python 3: to the nearest, a tie to the even neighbour.
RoundDiv(n, d) ==
    LET q == n \div d
        r == n % d
    IN  IF 2 * r < d THEN q
        ELSE IF 2 * r > d THEN q + 1
        ELSE IF q % 2 = 0 THEN q ELSE q + 1

get_user_weights(user_id, lw) ==
    LET learned_raw == StoredWeights(lw)
        learned_multipliers ==
            [criterion \in DOMAIN learned_raw |-> learned_raw[criterion].multiplier]
        effective_weights ==
            [criterion \in DOMAIN BaseWeights |->
                RoundDiv(BaseWeights[criterion]
                           * (IF criterion \in DOMAIN learned_multipliers
                              THEN learned_multipliers[criterion]
                              ELSE DefaultMultiplier),
                         DefaultMultiplier)]
    IN  IF user_id \notin Users
        THEN [error |-> "User not found"]
        ELSE [base_weights |-> BaseWeights,
              learned_multipliers |-> learned_multipliers,
              effective_weights |-> effective_weights]

\* Score breakdowns.  LightHome: kitchen_quality is listed first but is the
\* fourth contribution, so the top three are the other three.  QuietHome:
\* three items, one of weight 0.  ViewHome: a single item.  FlatScores: bare
\* numbers, no {"score", "weight"} dict.
LightHome ==
    Some(<<DictEntry("kitchen_quality", 6, 7), DictEntry("natural_light", 9, 10),
           DictEntry("outdoor_space", 8, 9), DictEntry("character_soul", 7, 8)>>)
QuietHome ==
    Some(<<DictEntry("kitchen_quality", 9, 7), DictEntry("character_soul", 5, 8),
           DictEntry("office_space", 8, 0)>>)
ViewHome == Some(<<DictEntry("views", 9, 5)>>)
FlatScores == Some(<<FlatEntry("natural_light", 3), FlatEntry("views", 2)>>)

ScoreTable(fifth) ==
    [l \in ListingIds |->
        IF l \in {"l1", "l2", "l3"} THEN LightHome
        ELSE IF l = "l4" THEN QuietHome
        ELSE fifth]
AllFlat == [l \in ListingIds |-> FlatScores]

\* A user who liked l1..l3 and disliked l4 and l5, recalculated PriorRecalcs
\* times while l5 still had the ViewHome breakdown.
PriorFeedback ==
    [l \in ListingIds |-> IF l \in {"l4", "l5"} THEN "dislike" ELSE "like"]

RECURSIVE RecalculatedTimes(_, _, _, _)
RecalculatedTimes(lw, fb, scores, n) ==
    IF n = 0 THEN lw
    ELSE LET stored == Recalculated(TEST_USER_ID, lw, fb, scores).stored
         IN  IF stored = lw THEN lw
             ELSE RecalculatedTimes(stored, fb, scores, n - 1)

PriorWeights ==
    RecalculatedTimes(None, PriorFeedback, ScoreTable(ViewHome), PriorRecalcs)

LearnInit ==
    /\ result = NoResult
    /\ recalcs = 0
    /\ \/ /\ feedback = NoFeedback
          /\ learned_weights = None
          /\ feature_scores \in {ScoreTable(FlatScores), ScoreTable(None), AllFlat}
       \/ /\ feedback = PriorFeedback
          /\ learned_weights = PriorWeights
          /\ feature_scores = ScoreTable(FlatScores)
    /\ PersistIdle
    /\ DiffIdle
    /\ FurtherIdle
    /\ LaterIdle

\* POST /feedback/{listing_id}
create_or_update_feedback(listing_id, feedback_type) ==
    /\ IF listing_id \notin ListingIds
       THEN UNCHANGED feedback
       ELSE feedback' =
                [l \in DOMAIN feedback \cup {listing_id} |->
                    IF l = listing_id THEN feedback_type ELSE feedback[l]]
    /\ UNCHANGED <<feature_scores, learned_weights, result, recalcs,
                   persist_vars, diff_vars, further_vars, later_vars>>

\* DELETE /feedback/{listing_id}
delete_feedback(listing_id) ==
    /\ feedback' = [l \in DOMAIN feedback \ {listing_id} |-> feedback[l]]
    /\ UNCHANGED <<feature_scores, learned_weights, result, recalcs,
                   persist_vars, diff_vars, further_vars, later_vars>>

recalculate_user_weights(user_id) ==
    /\ recalcs < MaxRecalcs
    /\ LET out == Recalculated(user_id, learned_weights, feedback, feature_scores)
       IN  /\ learned_weights' = out.stored
           /\ result' = out.returned
    /\ recalcs' = recalcs + 1
    /\ UNCHANGED <<feedback, feature_scores, persist_vars, diff_vars, further_vars, later_vars>>

reset_user_weights(user_id) ==
    /\ IF user_id \notin Users
       THEN /\ UNCHANGED learned_weights
            /\ result' = Returned("reset_user_weights", "", FALSE, "", FALSE)
       ELSE /\ learned_weights' = ResetWeights(learned_weights)
            /\ result' = Returned("reset_user_weights", "", FALSE, "", TRUE)
    /\ UNCHANGED <<feedback, feature_scores, recalcs, persist_vars, diff_vars, further_vars,
                   later_vars>>

LearnNext ==
    \/ \E listing_id \in ListingIds \cup {"l404"}, feedback_type \in FeedbackType :
           create_or_update_feedback(listing_id, feedback_type)
    \/ \E listing_id \in ListingIds \cup {"l404"} : delete_feedback(listing_id)
    \/ \E user_id \in UserIds : recalculate_user_weights(user_id)
    \/ \E user_id \in UserIds : reset_user_weights(user_id)

SpecLearn == LearnInit /\ [][LearnNext]_vars

--------------------------------------------------------------------------
(* Properties of the weight-learning service                               *)

IsEmpty(lw) == lw = None \/ DOMAIN lw[1] = {}
Likes == Cardinality(Signals(feedback, feature_scores, "like"))
Dislikes == Cardinality(Signals(feedback, feature_scores, "dislike"))
GateFails == Likes + Dislikes < 5 \/ Likes < 3 \/ Dislikes < 2
RecalculateStep == recalcs' = recalcs + 1
SuccessfulRecalculation == RecalculateStep /\ result'.weights_updated
GateMessages == {"Need total signals", "Need likes", "Need dislikes"}

\* C6: whatever feedback changes, recalculations and resets have happened,
\* every multiplier stored in learned_weights lies in [0.5, 2.0].
C6_MultiplierBounds ==
    learned_weights # None =>
        \A criterion \in DOMAIN learned_weights[1] :
            /\ learned_weights[1][criterion].multiplier >= 500
            /\ learned_weights[1][criterion].multiplier <= 2000

\* A recalculation was applied to weights that already sat on both bounds:
\* boosted criteria stay at 2.0 and a penalised one stays at 0.5.
C6_Witness ==
    /\ result.weights_updated
    /\ learned_weights # None
    /\ {"natural_light", "office_space"} \subseteq DOMAIN learned_weights[1]
    /\ learned_weights[1]["natural_light"].multiplier = 2000
    /\ learned_weights[1]["office_space"].multiplier = 500

\* C7: a recalculate_user_weights call made while the feedback on scored
\* listings has fewer than 5 signals, fewer than 3 likes or fewer than 2
\* dislikes leaves learned_weights as stored and returns weights_updated
\* = false.
C7_GateStep ==
    (RecalculateStep /\ GateFails) =>
        /\ learned_weights' = learned_weights
        /\ result'.call = "recalculate_user_weights"
        /\ result'.weights_updated = FALSE
C7_Gate == [][C7_GateStep]_vars

\* A call was turned down for lack of dislikes while weights were stored.
C7_Witness ==
    /\ result.call = "recalculate_user_weights"
    /\ result.message = "Need dislikes"
    /\ ~result.weights_updated
    /\ ~IsEmpty(learned_weights)
    /\ Likes >= 5

\* C8 as stated: in every reachable state, a user who has no like or
\* dislike signal has empty or absent learned_weights.
C8_Original == (Likes + Dislikes = 0) => IsEmpty(learned_weights)

\* C8: learned_weights turn from empty or absent to non-empty only in a
\* recalculate_user_weights call made while the gate passes, and creating,
\* changing or deleting feedback never changes the stored weights (so they
\* outlive the signals they were learned from).
C8_LearnedStep ==
    /\ (IsEmpty(learned_weights) /\ ~IsEmpty(learned_weights')) =>
           (SuccessfulRecalculation /\ ~GateFails)
    /\ feedback' # feedback => learned_weights' = learned_weights
C8_Learned == [][C8_LearnedStep]_vars

\* Weights were learned, then every feedback row was deleted.
C8_Witness ==
    /\ feedback = NoFeedback
    /\ result.weights_updated
    /\ ~IsEmpty(learned_weights)

\* C9: a successful recalculate_user_weights call stores a new entry for
\* exactly the criteria whose net delta is non-negligible (|delta| >
\* 0.001); every other criterion keeps its stored multiplier and
\* signal_count, and none appears or disappears.
C9_PersistStep ==
    SuccessfulRecalculation =>
        LET calc == calculate_weight_updates(feedback, feature_scores)
            adjusted == {c \in DOMAIN calc.deltas : Abs(calc.deltas[c]) > 1}
            before == StoredWeights(learned_weights)
            after == StoredWeights(learned_weights')
        IN  /\ learned_weights' # None
            /\ DOMAIN after = DOMAIN before \cup adjusted
            /\ \A c \in adjusted :
                   after[c].signal_count =
                       Hits(Signals(feedback, feature_scores, "like"),
                            feature_scores, c)
                     + Hits(Signals(feedback, feature_scores, "dislike"),
                            feature_scores, c)
            /\ \A c \in DOMAIN after \ adjusted : after[c] = before[c]
C9_Persist == [][C9_PersistStep]_vars

\* A successful call adjusted kitchen_quality and left the stored entry of
\* views, which no rated listing has among its top criteria, in place.
C9_Witness ==
    /\ result.weights_updated
    /\ learned_weights # None
    /\ {"views", "kitchen_quality"} \subseteq DOMAIN learned_weights[1]
    /\ learned_weights[1]["views"] = PriorWeights[1]["views"]
    /\ learned_weights[1]["kitchen_quality"] # PriorWeights[1]["kitchen_quality"]

\* C10: reset_user_weights on an existing user leaves no learned state,
\* whatever was stored; from then on, until a recalculation succeeds, the
\* weights stay absent and every effective weight get_user_weights returns
\* is the base weight of the configuration.
C10_ResetStep ==
    /\ reset_user_weights(TEST_USER_ID) => learned_weights' = None
    /\ (learned_weights = None /\ ~SuccessfulRecalculation) =>
           learned_weights' = None
    /\ learned_weights' = None =>
           \A criterion \in DOMAIN BaseWeights :
               get_user_weights(TEST_USER_ID, learned_weights')
                   .effective_weights[criterion] = BaseWeights[criterion]
C10_Reset == [][C10_ResetStep]_vars

\* The user was reset after two recalculations.
C10_Witness ==
    /\ result.call = "reset_user_weights"
    /\ result.success
    /\ recalcs = MaxRecalcs
    /\ learned_weights = None
    /\ feedback = PriorFeedback

--------------------------------------------------------------------------
(* Alert evaluation (app/services/listing_alerts.py).                      *)
(* ListingEvent.details is a plain JSON column: the session writes back a  *)
(* dict that was assigned to the attribute, and does not see a change made *)
(* in place to the dict it loaded from the row.                            *)

price_drop_threshold == 5
digest_drop_threshold == 3
dom_threshold == 45

\* How many process_listing_alerts invocations a behaviour makes.
MaxAlertRuns == 3

AlertListings == {"l1", "l2"}

\* The ListingEvent rows _build_events has written, by id.
AlertEvents ==
    [e1 |-> [listing_id |-> "l1", event_type |-> "new_listing", created_at |-> 1],
     e2 |-> [listing_id |-> "l1", event_type |-> "price_drop", created_at |-> 1],
     e3 |-> [listing_id |-> "l2", event_type |-> "back_on_market", created_at |-> 2]]

\* A details dict: the percent of a price drop (None when the key is
\* missing or null) and the two dedup flags.
Details(percent, alerted_immediate, alerted_digest) ==
    [percent |-> percent, alerted_immediate |-> alerted_immediate,
     alerted_digest |-> alerted_digest]
EmptyDetails == Details(None, FALSE, FALSE)

\* What score_listing answers for one listing: with the default threshold
\* and with min_score_percent = the immediate-alert threshold.
ScoreAnswers == [default : BOOLEAN, immediate : BOOLEAN]

\* _event_details: a NULL details is replaced by a new dict assigned to the
\* attribute (assigned = TRUE); a loaded dict is handed out as it is.
_event_details(details) ==
    IF details = None
    THEN [assigned |-> TRUE, dict |-> EmptyDetails]
    ELSE [assigned |-> FALSE, dict |-> details[1]]

\* A column that tracked in-place changes would store the dict every time.
CommittedDetails_Always(details, session) == Some(session.dict)

\* db.commit(): the row gets the dict only if the attribute was assigned.
CommittedDetails(details, session) ==
    IF session.assigned THEN Some(session.dict) ELSE details

Evaluated(session, immediate, digest) ==
    [session |-> session, immediate |-> immediate, digest |-> digest]

\* One turn of the loop over the events.
EvaluateEvent(event, details, score) ==
    LET session == _event_details(details)
        dict == session.dict
        skipped == Evaluated(session, FALSE, FALSE)
    IN  IF event.event_type = "new_listing"
        THEN IF dict.alerted_immediate THEN skipped
             ELSE IF ~score.immediate THEN skipped
             ELSE Evaluated([session EXCEPT !.dict.alerted_immediate = TRUE],
                            TRUE, FALSE)
        ELSE IF event.event_type = "price_drop"
        THEN IF dict.percent = None THEN skipped
             ELSE IF ~score.default THEN skipped
             ELSE IF dict.percent[1] >= price_drop_threshold
                     /\ ~dict.alerted_immediate
             THEN Evaluated([session EXCEPT !.dict.alerted_immediate = TRUE],
                            TRUE, FALSE)
             ELSE IF dict.percent[1] >= digest_drop_threshold
                     /\ ~dict.alerted_digest
             THEN Evaluated([session EXCEPT !.dict.alerted_digest = TRUE],
                            FALSE, TRUE)
             ELSE skipped
        ELSE IF event.event_type = "back_on_market"
        THEN IF dict.alerted_immediate THEN skipped
             ELSE IF ~score.default THEN skipped
             ELSE Evaluated([session EXCEPT !.dict.alerted_immediate = TRUE],
                            TRUE, FALSE)
        ELSE skipped

\* The listings of the DOM sweep that get a dom_stale event.
StaleSweep_NoExistenceCheck(days, existing, scores) ==
    IF dom_threshold = 0 THEN {}
    ELSE {l \in DOMAIN days :
            /\ days[l] # None /\ days[l][1] >= dom_threshold
            /\ scores[l].default}

StaleSweep(days, existing, scores) ==
    IF dom_threshold = 0 THEN {}
    ELSE {l \in DOMAIN days :
            /\ days[l] # None /\ days[l][1] >= dom_threshold
            /\ existing[l] = 0
            /\ scores[l].default}

_build_alert_payload(listing_id, reason) ==
    [listing_id |-> listing_id, reason |-> reason]

AlertReason(event_type) ==
    IF event_type = "new_listing" THEN "New listing"
    ELSE IF event_type = "price_drop" THEN "Price drop"
    ELSE "Back on market"

PercentVals == {None, Some(2), Some(3), Some(4), Some(5)}
DomVals == {None, Some(44), Some(45)}

AlertInit ==
    /\ \E percent \in PercentVals :
           event_details = [e1 |-> None,
                            e2 |-> Some(Details(percent, FALSE, FALSE)),
                            e3 |-> None]
    /\ \E days \in DomVals : listing_dom = [l1 |-> days, l2 |-> Some(60)]
    /\ dom_stale_events = [l \in AlertListings |-> 0]
    /\ alert_counts = [e \in DOMAIN AlertEvents |-> [immediate |-> 0, digest |-> 0]]
    /\ immediate_alerts = {}
    /\ digest_alerts = {}
    /\ scored = [l \in AlertListings |-> [default |-> FALSE, immediate |-> FALSE]]
    /\ since_time = 0
    /\ alert_runs = 0
    /\ PersistIdle
    /\ DiffIdle
    /\ FurtherIdle
    /\ LearnIdle
    /\ IngestIdle

\* The handler up to its last db.commit(): the lists it builds and what the
\* commit writes.
evaluate_and_commit(since, scores) ==
    /\ alert_runs < MaxAlertRuns
    /\ LET covered == {e \in DOMAIN AlertEvents : AlertEvents[e].created_at >= since}
           evaluated ==
               [e \in covered |->
                   EvaluateEvent(AlertEvents[e], event_details[e],
                                 scores[AlertEvents[e].listing_id])]
           stale == StaleSweep(listing_dom, dom_stale_events, scores)
       IN  /\ event_details' =
                   [e \in DOMAIN event_details |->
                       IF e \in covered
                       THEN CommittedDetails(event_details[e], evaluated[e].session)
                       ELSE event_details[e]]
           /\ dom_stale_events' =
                   [l \in DOMAIN dom_stale_events |->
                       IF l \in stale THEN dom_stale_events[l] + 1
                       ELSE dom_stale_events[l]]
           /\ immediate_alerts' =
                   {_build_alert_payload(AlertEvents[e].listing_id,
                                         AlertReason(AlertEvents[e].event_type)) :
                       e \in {x \in covered : evaluated[x].immediate}}
           /\ digest_alerts' =
                   {_build_alert_payload(AlertEvents[e].listing_id,
                                         AlertReason(AlertEvents[e].event_type)) :
                       e \in {x \in covered : evaluated[x].digest}}
                   \cup {_build_alert_payload(l, "DOM") : l \in stale}
           /\ alert_counts' =
                   [e \in DOMAIN alert_counts |->
                       IF e \in covered
                       THEN [immediate |-> alert_counts[e].immediate
                                 + (IF evaluated[e].immediate THEN 1 ELSE 0),
                             digest |-> alert_counts[e].digest
                                 + (IF evaluated[e].digest THEN 1 ELSE 0)]
                       ELSE alert_counts[e]]
    /\ scored' = scores
    /\ since_time' = since
    /\ alert_runs' = alert_runs + 1
    /\ UNCHANGED listing_dom

process_listing_alerts(since, scores) ==
    /\ evaluate_and_commit(since, scores)
    /\ UNCHANGED <<persist_vars, diff_vars, further_vars, learn_vars, ingest_vars>>

AlertNext ==
    \E since \in 1..3, scores \in [AlertListings -> ScoreAnswers] :
        process_listing_alerts(since, scores)

SpecAlerts == AlertInit /\ [][AlertNext]_vars

--------------------------------------------------------------------------
(* Properties of the alert evaluation                                      *)

AlertsOnce == {"e1", "e3"}
ScorePasses(e, scores) ==
    IF AlertEvents[e].event_type = "new_listing"
    THEN scores[AlertEvents[e].listing_id].immediate
    ELSE scores[AlertEvents[e].listing_id].default

\* C11: over any number of invocations, a new_listing or back_on_market
\* event gets at most one immediate alert, and gets it only in an
\* invocation in which score_listing passes for its listing (against the
\* immediate-alert threshold for new_listing).
C11_AlertedOnceStep ==
    \A e \in AlertsOnce :
        /\ alert_counts'[e].immediate <= 1
        /\ alert_counts'[e].immediate > alert_counts[e].immediate =>
               ScorePasses(e, scored')
C11_AlertedOnce == [][C11_AlertedOnceStep]_vars

DropPercent == event_details["e2"][1].percent
DropListing == AlertEvents["e2"].listing_id

\* C12: a price_drop event is alerted only in an invocation in which its
\* listing passes score_listing; it goes on the immediate list only with a
\* percent of at least 5 and on the digest list only with a percent of at
\* least 3 and below 5; over all invocations each of the two channels
\* alerts the event at most once.
C12_PriceDropStep ==
    LET immediate == alert_counts'["e2"].immediate > alert_counts["e2"].immediate
        digest == alert_counts'["e2"].digest > alert_counts["e2"].digest
    IN  /\ (immediate \/ digest) => scored'[DropListing].default
        /\ immediate => (DropPercent # None /\ DropPercent[1] >= 5)
        /\ digest => (DropPercent # None /\ DropPercent[1] >= 3 /\ DropPercent[1] < 5)
        /\ alert_counts'["e2"].immediate <= 1
        /\ alert_counts'["e2"].digest <= 1
C12_PriceDrop == [][C12_PriceDropStep]_vars

\* C13: a listing never has more than one dom_stale event, and a dom_stale
\* event is created, together with its digest alert, only for a listing
\* whose days_on_market is at least 45 and that passes score_listing in
\* that invocation.
C13_DomStaleStep ==
    \A l \in AlertListings :
        /\ dom_stale_events'[l] <= 1
        /\ dom_stale_events'[l] > dom_stale_events[l] =>
               /\ listing_dom[l] # None /\ listing_dom[l][1] >= 45
               /\ scored'[l].default
               /\ _build_alert_payload(l, "DOM") \in digest_alerts'
        /\ _build_alert_payload(l, "DOM") \in digest_alerts' =>
               dom_stale_events'[l] > dom_stale_events[l]
C13_DomStale == [][C13_DomStaleStep]_vars

\* A stale listing that has its dom_stale event passed score_listing again
\* in a later invocation and got no second event and no digest alert.
C13_Witness ==
    /\ alert_runs >= 2
    /\ dom_stale_events["l1"] = 1
    /\ listing_dom["l1"] = Some(45)
    /\ scored["l1"].default
    /\ _build_alert_payload("l1", "DOM") \notin digest_alerts

(***************************************************************************)
(* Ingestion orchestrator (app/services/ingestion.py).                     *)
(*                                                                         *)
(* A listing dict is a record with one field per key the orchestrator      *)
(* reads; a key that is missing or None is None.  Identifiers are strings, *)
(* so str() leaves them as they are.  photos is the length of the list.    *)
(***************************************************************************)

\* settings.MAX_PAGES, set small the way the tests do.
MAX_PAGES == 3

SourceKey == "zillow"

Summary(source, source_listing_id, listing_id, url, price, photos) ==
    [source |-> source, source_listing_id |-> source_listing_id,
     listing_id |-> listing_id, url |-> url, price |-> price,
     photos |-> photos, description |-> None]

\* `not listing.get(key)`: the key is missing, None or "".
Falsy(value) == value = None \/ value = Some("")

_apply_source_fields(item, source_key) ==
    LET sourced == IF Falsy(item.source)
                   THEN [item EXCEPT !.source = Some(source_key)]
                   ELSE item
    IN  IF sourced.source_listing_id = None /\ sourced.listing_id # None
        THEN [sourced EXCEPT !.source_listing_id = sourced.listing_id]
        ELSE sourced

\* ---- _fetch_summaries ----
\* The identifiers of the items a provider has on every page.
ItemIds == << <<"a1", "a2">>, <<"b1", "b2">>, <<"c1", "c2">>,
              <<"d1", "d2">>, <<"e1", "e2">> >>
BatchSizes == {0, 1, 2}

\* The first item of a page has only a listing_id; the second one comes with
\* its own source and source_listing_id.
RawItem(n, k) ==
    IF k = 1
    THEN Summary(None, None, Some(ItemIds[n][k]), None, None, 0)
    ELSE Summary(Some("feed"), Some(ItemIds[n][k]), None, None, None, 0)
Batch(n, size) == [k \in 1..size |-> RawItem(n, k)]

\* What the provider does when asked for a page: it raises, or it returns
\* `size` items and whether there are more pages.
PageAnswer == [size : BatchSizes, more : BOOLEAN, raises : BOOLEAN]

\* `while page <= max_pages`
WhileContinues_NoCap(next_page) == TRUE
WhileContinues(next_page) == next_page <= MAX_PAGES

FetchInit ==
    /\ provider_pages \in [1..(MAX_PAGES + 2) -> PageAnswer]
    /\ \A n \in (MAX_PAGES + 1)..(MAX_PAGES + 2) :
            provider_pages[n] = [size |-> 1, more |-> FALSE, raises |-> FALSE]
    /\ has_search_page \in BOOLEAN
    /\ page = 1
    /\ page_requests = <<>>
    /\ summaries = <<>>
    /\ batch_counts = <<>>
    /\ fetch_pc = IF WhileContinues(1) THEN "loop" ELSE "returned"
    /\ PersistIdle
    /\ DiffIdle
    /\ FurtherIdle
    /\ LearnIdle
    /\ AlertIdle
    /\ EnrichIdle
    /\ DedupIdle
    /\ JobIdle

\* One iteration of the while loop: the request for `page`, the extension of
\* summaries, the on_batch report and the decision to go on or to return.
FetchPage ==
    /\ fetch_pc = "loop"
    /\ page_requests' = Append(page_requests, page)
    /\ LET answer == provider_pages[page]
           more == has_search_page /\ answer.more
           batch == Batch(page, answer.size)
           page_items == [k \in 1..Len(batch) |->
                             _apply_source_fields(batch[k], SourceKey)]
       IN  IF answer.raises
           THEN /\ fetch_pc' = "raised"
                /\ UNCHANGED <<page, summaries, batch_counts>>
           ELSE /\ summaries' = summaries \o page_items
                /\ batch_counts' = IF page_items # <<>>
                                   THEN Append(batch_counts, Len(page_items))
                                   ELSE batch_counts
                /\ IF ~more
                   THEN page' = page /\ fetch_pc' = "returned"
                   ELSE /\ page' = page + 1
                        /\ fetch_pc' = IF WhileContinues(page + 1)
                                       THEN "loop" ELSE "returned"
    /\ UNCHANGED <<provider_pages, has_search_page, persist_vars, diff_vars, further_vars,
                   learn_vars, alert_vars, enrich_vars, dedup_vars, job_vars>>

FetchNext == FetchPage
SpecFetch == FetchInit /\ [][FetchNext]_vars

RECURSIVE SumSeq(_)
SumSeq(seq) == IF seq = <<>> THEN 0 ELSE Head(seq) + SumSeq(Tail(seq))

RECURSIVE Concat(_)
Concat(seqs) == IF seqs = <<>> THEN <<>> ELSE Head(seqs) \o Concat(Tail(seqs))

\* The items of the pages 1..n as the provider handed them out, with the
\* source fields filled in.
FetchedItems(n) ==
    Concat([i \in 1..n |->
        [k \in 1..provider_pages[i].size |->
            _apply_source_fields(RawItem(i, k), SourceKey)]])

\* C15: _fetch_summaries requests the pages 1, 2, ... in sequence, asks for
\* page N+1 only after page N came back with has-more = true, makes at most
\* MAX_PAGES requests and stops at the first page that reports no further
\* pages; what it returns is every item of every fetched page in fetch
\* order, and the counts handed to on_batch add up to exactly those items,
\* one report per non-empty page.
C15_Paging ==
    LET n == Len(page_requests)
    IN  /\ page_requests = [i \in 1..n |-> i]
        /\ n <= MAX_PAGES
        /\ \A i \in 1..(n - 1) :
                /\ ~provider_pages[i].raises
                /\ has_search_page /\ provider_pages[i].more
        /\ fetch_pc = "loop" => n < MAX_PAGES
        /\ fetch_pc = "returned" =>
                /\ n >= 1
                /\ n = MAX_PAGES \/ ~(has_search_page /\ provider_pages[n].more)
                /\ summaries = FetchedItems(n)
                /\ SumSeq(batch_counts) = Len(summaries)
                /\ batch_counts =
                       SelectSeq([i \in 1..n |-> provider_pages[i].size],
                                 LAMBDA size : size > 0)

C15_Witness ==
    /\ fetch_pc = "returned"
    /\ Len(page_requests) = MAX_PAGES
    /\ provider_pages[MAX_PAGES].more
    /\ Len(batch_counts) < Len(page_requests)
    /\ Len(summaries) >= 3

\* ---- _enrich_summaries ----
\* settings.MAX_DETAIL_CALLS, set small the way the tests do.
MAX_DETAIL_CALLS == 2
MaxSummaries == MAX_DETAIL_CALLS + 1

\* `a or b`
Or(a, b) == IF Falsy(a) THEN b ELSE a

\* The summaries handed in: one with a source_listing_id, one with only a
\* listing_id, one with no identifier at all.
SummaryIds == <<"1", "2", "3", "4">>
SummaryKinds == {"source_listing_id", "listing_id", "none"}
SummaryOf(kind, i) ==
    CASE kind = "source_listing_id" ->
            Summary(Some(SourceKey), Some(SummaryIds[i]), None, None, None, 0)
      [] kind = "listing_id" ->
            Summary(None, None, Some(SummaryIds[i]), None, None, 0)
      [] OTHER ->
            Summary(None, None, None, Some(SummaryIds[i]), None, 0)

\* summary.get("source_listing_id") or summary.get("listing_id")
DetailId(summary) == Or(summary.source_listing_id, summary.listing_id)

RECURSIVE IndexesWithId(_, _)
IndexesWithId(input, i) ==
    IF i > Len(input) THEN <<>>
    ELSE (IF Falsy(DetailId(input[i])) THEN <<>> ELSE <<i>>)
         \o IndexesWithId(input, i + 1)

\* detail_candidates[:max_detail_calls]
Truncate_Unlimited(candidates) == candidates
Truncate(candidates) ==
    IF Len(candidates) > MAX_DETAIL_CALLS
    THEN SubSeq(candidates, 1, MAX_DETAIL_CALLS)
    ELSE candidates

\* The indexes of detail_candidates, in list order.
DetailCandidates(input, supports) ==
    IF supports /\ MAX_DETAIL_CALLS > 0
    THEN Truncate(IndexesWithId(input, 1))
    ELSE <<>>

Range(seq) == {seq[i] : i \in DOMAIN seq}

\* What provider.get_details does: it returns the details of the listing it
\* was asked for, runs into the per-call timeout, or raises.
DetailOutcomes == {"ok", "timeout", "raise"}
EmptyDict == [empty |-> TRUE, description |-> None, photos |-> None]
DetailsFor(id) == [empty |-> FALSE, description |-> Some(id), photos |-> Some(1)]

\* `except asyncio.TimeoutError` and `except Exception` in fetch_detail.
Caught_TimeoutOnly(outcome) == outcome = "timeout"
Caught(outcome) == outcome \in {"timeout", "raise"}

fetch_detail(id, outcome) ==
    IF outcome = "ok" THEN [raised |-> FALSE, details |-> DetailsFor(id)]
    ELSE IF Caught(outcome) THEN [raised |-> FALSE, details |-> EmptyDict]
    ELSE [raised |-> TRUE, details |-> EmptyDict]

\* detail_results[index] = details, in the order the tasks complete.
StoreResult(results, index, details) == [results EXCEPT ![index] = Some(details)]

\* extract_flags and estimate_light_potential are functions of the
\* description and of the number of photos; the listings of the model have
\* no coordinates and no neighborhood.
Derived(merged) ==
    merged @@ [flags |-> IF Falsy(merged.description) THEN None
                         ELSE merged.description,
               light_potential |-> <<merged.description, merged.photos>>]

\* One round of the merge loop: summary fields, detail fields that are not
\* None on top, derived fields, source fields.
Merge(summary, details) ==
    IF Falsy(DetailId(summary))
    THEN _apply_source_fields(summary, SourceKey)
    ELSE LET merged ==
                 IF details.empty THEN summary
                 ELSE [summary EXCEPT
                          !.description = IF details.description # None
                                          THEN details.description ELSE @,
                          !.photos = IF details.photos # None
                                     THEN details.photos[1] ELSE @]
         IN  _apply_source_fields(Derived(merged), SourceKey)

SummaryOnly(summary) == Merge(summary, EmptyDict)

EnrichInit ==
    /\ \E n \in 0..MaxSummaries : \E kinds \in [1..n -> SummaryKinds] :
            enrich_input = [i \in 1..n |-> SummaryOf(kinds[i], i)]
    /\ supports_details \in BOOLEAN
    /\ detail_outcomes \in [1..Len(enrich_input) -> DetailOutcomes]
    /\ \A i \in 1..Len(enrich_input) :
            i \notin Range(DetailCandidates(enrich_input, supports_details))
                => detail_outcomes[i] = "ok"
    /\ task_state = [i \in Range(DetailCandidates(enrich_input, supports_details))
                        |-> "pending"]
    /\ detail_requests = {}
    /\ detail_results = [i \in 1..Len(enrich_input) |-> None]
    /\ detail_calls_made = 0
    /\ callback_calls = 0
    /\ enriched = <<>>
    /\ enrich_pc = "tasks"
    /\ PersistIdle
    /\ DiffIdle
    /\ FurtherIdle
    /\ LearnIdle
    /\ AlertIdle
    /\ FetchIdle
    /\ DedupIdle
    /\ JobIdle

Pending == {i \in DOMAIN task_state : task_state[i] = "pending"}

\* A fetch_detail task finishes, in whatever order, and the as_completed loop
\* takes its result; on_detail_call runs in the task's finally block.
CompleteDetail(i) ==
    /\ enrich_pc = "tasks"
    /\ i \in Pending
    /\ LET id == DetailId(enrich_input[i])[1]
           r == fetch_detail(id, detail_outcomes[i])
       IN  /\ detail_requests' = detail_requests \cup {id}
           /\ IF r.raised
              THEN /\ task_state' = [j \in DOMAIN task_state |->
                                        IF j = i THEN "done"
                                        ELSE IF j \in Pending THEN "cancelled"
                                        ELSE task_state[j]]
                   /\ callback_calls' = callback_calls + Cardinality(Pending)
                   /\ enrich_pc' = "raised"
                   /\ UNCHANGED <<detail_results, detail_calls_made>>
              ELSE /\ task_state' = [task_state EXCEPT ![i] = "done"]
                   /\ callback_calls' = callback_calls + 1
                   /\ detail_results' = StoreResult(detail_results, i, r.details)
                   /\ detail_calls_made' = detail_calls_made + 1
                   /\ UNCHANGED enrich_pc
    /\ UNCHANGED <<enrich_input, supports_details, detail_outcomes, enriched,
                   persist_vars, diff_vars, further_vars, learn_vars, alert_vars, fetch_vars,
                   dedup_vars, job_vars>>

\* Every task is done: the merge loop runs and the call returns.
EnrichReturn ==
    /\ enrich_pc = "tasks"
    /\ Pending = {}
    /\ enriched' = [i \in 1..Len(enrich_input) |->
                       Merge(enrich_input[i],
                             IF detail_results[i] = None THEN EmptyDict
                             ELSE detail_results[i][1])]
    /\ enrich_pc' = "returned"
    /\ UNCHANGED <<enrich_input, supports_details, detail_outcomes, task_state,
                   detail_requests, detail_results, detail_calls_made,
                   callback_calls, persist_vars, diff_vars, further_vars, learn_vars,
                   alert_vars, fetch_vars, dedup_vars, job_vars>>

\* The caller's wait_for gives up while tasks are awaited: the finally block
\* (163-168) cancels the tasks that are not done, each of them runs its own
\* finally block, and nothing is returned.
EnrichCancelled ==
    /\ enrich_pc = "tasks"
    /\ Pending # {}
    /\ task_state' = [j \in DOMAIN task_state |->
                         IF j \in Pending THEN "cancelled" ELSE task_state[j]]
    /\ callback_calls' = callback_calls + Cardinality(Pending)
    /\ enrich_pc' = "cancelled"
    /\ UNCHANGED <<enrich_input, supports_details, detail_outcomes,
                   detail_requests, detail_results, detail_calls_made, enriched,
                   persist_vars, diff_vars, further_vars, learn_vars, alert_vars, fetch_vars,
                   dedup_vars, job_vars>>

EnrichNext ==
    \/ \E i \in DOMAIN task_state : CompleteDetail(i)
    \/ EnrichReturn
    \/ EnrichCancelled
SpecEnrich == EnrichInit /\ [][EnrichNext]_vars

\* The candidates the claims speak of: the first min(n, b) summaries that
\* have an identifier, for a provider that supports details.
WithId == IndexesWithId(enrich_input, 1)
Budget == IF supports_details THEN MAX_DETAIL_CALLS ELSE 0
FirstWithId == {WithId[k] : k \in 1..Min(Len(WithId), Budget)}
IdAt(i) == DetailId(enrich_input[i])[1]
Done == {i \in DOMAIN task_state : task_state[i] = "done"}

\* C14: with n summaries that have an identifier and a budget of b detail
\* calls, get_details is called for the first min(n, b) of them in list order
\* and for nothing else; when the call returns there is one record per input
\* summary, each record whose details were fetched carries the details of
\* its own identifier whatever the order of completion, every other record
\* is summary-only, and the detail-call count is min(n, b).
C14_DetailBudget ==
    /\ DOMAIN task_state = FirstWithId
    /\ detail_requests \subseteq {IdAt(i) : i \in FirstWithId}
    /\ Cardinality(detail_requests) <= MAX_DETAIL_CALLS
    /\ enrich_pc = "returned" =>
            /\ detail_requests = {IdAt(i) : i \in FirstWithId}
            /\ Cardinality(detail_requests) = Min(Len(WithId), Budget)
            /\ detail_calls_made = Min(Len(WithId), Budget)
            /\ callback_calls = Min(Len(WithId), Budget)
            /\ Len(enriched) = Len(enrich_input)
            /\ \A i \in 1..Len(enrich_input) :
                    IF i \in FirstWithId /\ detail_outcomes[i] = "ok"
                    THEN enriched[i] = Merge(enrich_input[i], DetailsFor(IdAt(i)))
                    ELSE enriched[i] = SummaryOnly(enrich_input[i])

C14_Witness ==
    /\ enrich_pc = "returned"
    /\ supports_details
    /\ Len(WithId) > MAX_DETAIL_CALLS
    /\ detail_calls_made = MAX_DETAIL_CALLS
    /\ \A i \in FirstWithId : enriched[i].description = Some(IdAt(i))
    /\ enriched[WithId[Len(WithId)]].description = None

\* C16: a get_details call that times out or raises leaves its listing
\* summary-only and is counted as a detail call; it cancels no sibling
\* fetch, leaves every sibling's result as the provider gave it, and the
\* enrichment itself does not raise.
C16_DetailFailure ==
    /\ enrich_pc # "raised"
    /\ \A i \in DOMAIN task_state :
            task_state[i] = "cancelled" => enrich_pc = "cancelled"
    /\ detail_calls_made = Cardinality(Done)
    /\ enrich_pc \in {"tasks", "returned"} => callback_calls = Cardinality(Done)
    /\ \A i \in Done :
            detail_results[i] = Some(IF detail_outcomes[i] = "ok"
                                     THEN DetailsFor(IdAt(i)) ELSE EmptyDict)
    /\ enrich_pc = "returned" =>
            \A i \in DOMAIN task_state :
                IF detail_outcomes[i] = "ok"
                THEN enriched[i].description = Some(IdAt(i))
                ELSE enriched[i] = SummaryOnly(enrich_input[i])

C16_Witness ==
    /\ enrich_pc = "returned"
    /\ detail_calls_made = MAX_DETAIL_CALLS
    /\ \E i, j \in DOMAIN task_state :
            /\ detail_outcomes[i] \in {"raise", "timeout"}
            /\ detail_outcomes[j] = "ok"
            /\ enriched[i] = SummaryOnly(enrich_input[i])
            /\ enriched[j].description = Some(IdAt(j))

\* ---- run_ingestion_job: deduplication and ordering (313-352) ----
\* str.strip() on the URLs of the model.
Strip(url) == IF url = " u" THEN "u" ELSE IF url = " " THEN "" ELSE url

\* source_id: source_listing_id unless None or "", else listing_id unless
\* None, else the stripped URL unless empty.
SourceId_NoUrl(s) ==
    IF s.source_listing_id \notin {None, Some("")} THEN s.source_listing_id
    ELSE s.listing_id
SourceId(s) ==
    IF s.source_listing_id \notin {None, Some("")} THEN s.source_listing_id
    ELSE IF s.listing_id # None THEN s.listing_id
    ELSE IF s.url # None /\ Strip(s.url[1]) # "" THEN Some(Strip(s.url[1]))
    ELSE None

DedupKey(s) == <<s.source, SourceId(s)>>

\* The loop over provider_summaries with the set seen_ids.
RECURSIVE Deduplicate(_, _, _)
Deduplicate(input, seen_ids, i) ==
    IF i > Len(input) THEN <<>>
    ELSE LET s == input[i]
             source_id == SourceId(s)
             key == DedupKey(s)
         IN  IF Falsy(source_id) \/ key \notin seen_ids
             THEN <<s>> \o Deduplicate(input,
                                       IF Falsy(source_id) THEN seen_ids
                                       ELSE seen_ids \cup {key},
                                       i + 1)
             ELSE Deduplicate(input, seen_ids, i + 1)

\* The sort key: 0 for a priced listing within a configured ceiling, else 1;
\* then the negated number of photos.
SortKey(s, ceiling) ==
    <<IF ceiling # None /\ ceiling[1] # 0 /\ s.price # None /\ s.price[1] # 0
         /\ s.price[1] <= ceiling[1]
      THEN 0 ELSE 1,
      0 - s.photos>>
KeyLess(a, b) == a[1] < b[1] \/ (a[1] = b[1] /\ a[2] < b[2])

\* list.sort is stable: an element goes behind the elements whose key is not
\* greater than its own.
RECURSIVE InsertByKey(_, _, _)
InsertByKey(s, sorted, ceiling) ==
    IF sorted = <<>> THEN <<s>>
    ELSE IF KeyLess(SortKey(s, ceiling), SortKey(Head(sorted), ceiling))
         THEN <<s>> \o sorted
         ELSE <<Head(sorted)>> \o InsertByKey(s, Tail(sorted), ceiling)
RECURSIVE Prioritize(_, _, _)
Prioritize(list, n, ceiling) ==
    IF n = 0 THEN <<>>
    ELSE InsertByKey(list[n], Prioritize(list, n - 1, ceiling), ceiling)

\* The summaries of one source: by identity (a source_listing_id, an empty
\* source_listing_id with a listing_id, a URL with or without surrounding
\* blanks, nothing at all), price and number of photos.
DedupIdentities ==
    {[source_listing_id |-> Some("1"), listing_id |-> None, url |-> None],
     [source_listing_id |-> Some(""), listing_id |-> Some("1"), url |-> None],
     [source_listing_id |-> Some("2"), listing_id |-> None, url |-> None],
     [source_listing_id |-> None, listing_id |-> None, url |-> Some("u")],
     [source_listing_id |-> None, listing_id |-> None, url |-> Some(" u")],
     [source_listing_id |-> None, listing_id |-> None, url |-> None]}
DedupPrices == {Some(1), Some(2)}
DedupPhotos == {0, 2}
DedupItems ==
    {Summary(Some(SourceKey), id.source_listing_id, id.listing_id, id.url,
             price, photos) :
        id \in DedupIdentities, price \in DedupPrices, photos \in DedupPhotos}
DedupLengths == 1..3
PriceMaxVals == {None, Some(1)}

DedupInit ==
    /\ \E n \in DedupLengths : dedup_input \in [1..n -> DedupItems]
    /\ price_max \in PriceMaxVals
    /\ unique_summaries = <<>>
    /\ dedup_pc = "fetched"
    /\ PersistIdle
    /\ DiffIdle
    /\ FurtherIdle
    /\ LearnIdle
    /\ AlertIdle
    /\ FetchIdle
    /\ EnrichIdle
    /\ JobIdle

\* `if provider_summaries:` up to the sort of unique_summaries.
DeduplicateAndSort ==
    /\ dedup_pc = "fetched"
    /\ dedup_input # <<>>
    /\ LET unique == Deduplicate(dedup_input, {}, 1)
       IN  unique_summaries' = Prioritize(unique, Len(unique), price_max)
    /\ dedup_pc' = "sorted"
    /\ UNCHANGED <<dedup_input, price_max, persist_vars, diff_vars, further_vars, learn_vars,
                   alert_vars, fetch_vars, enrich_vars, job_vars>>

DedupNext == DeduplicateAndSort
SpecDedup == DedupInit /\ [][DedupNext]_vars

\* The identifier and the key as the specification words them.
ClaimedId(s) ==
    IF ~Falsy(s.source_listing_id) THEN s.source_listing_id
    ELSE IF ~Falsy(s.listing_id) THEN s.listing_id
    ELSE IF s.url # None THEN Some(Strip(s.url[1]))
    ELSE None
ClaimedKey(s) == <<s.source, ClaimedId(s)>>
SameListing(a, b) == ClaimedId(a) # None /\ ClaimedKey(a) = ClaimedKey(b)
WithinCeiling(s) ==
    price_max # None /\ s.price # None /\ s.price[1] <= price_max[1]
\* The positions of dedup_input that no earlier position duplicates.
FirstOccurrences ==
    {i \in DOMAIN dedup_input :
        \A j \in 1..(i - 1) : ~SameListing(dedup_input[j], dedup_input[i])}
Occurrences(list, s) == Cardinality({i \in DOMAIN list : list[i] = s})

\* C20, as stated: among the summaries that share a key, the one kept is
\* within the price ceiling if any of them is, and has the most photos among
\* those.
C20_Original ==
    dedup_pc = "sorted" =>
        \A k \in DOMAIN unique_summaries : \A d \in DOMAIN dedup_input :
            LET kept == unique_summaries[k]
                dup == dedup_input[d]
            IN  SameListing(kept, dup) =>
                    /\ WithinCeiling(dup) => WithinCeiling(kept)
                    /\ WithinCeiling(dup) = WithinCeiling(kept)
                           => kept.photos >= dup.photos

\* C20, amended: per source the summaries are deduplicated by (source,
\* identifier), the identifier being source_listing_id, else listing_id,
\* else the URL; of the summaries that share a key the first in fetch order
\* is kept, a summary without any identifier is always kept, and the kept
\* summaries are then ordered with those within the configured price
\* ceiling first and, within each group, by descending number of photos.
C20_Dedup ==
    dedup_pc = "sorted" =>
        /\ \A a, b \in DOMAIN unique_summaries :
                a # b => ~SameListing(unique_summaries[a], unique_summaries[b])
        /\ Len(unique_summaries) = Cardinality(FirstOccurrences)
        /\ \A i \in FirstOccurrences :
                Occurrences(unique_summaries, dedup_input[i])
                    = Cardinality({j \in FirstOccurrences :
                                        dedup_input[j] = dedup_input[i]})
        /\ \A a, b \in DOMAIN unique_summaries :
                a < b =>
                    LET first == unique_summaries[a]
                        second == unique_summaries[b]
                    IN  /\ WithinCeiling(second) => WithinCeiling(first)
                        /\ WithinCeiling(first) = WithinCeiling(second)
                               => first.photos >= second.photos

C20_Witness ==
    /\ dedup_pc = "sorted"
    /\ Len(dedup_input) = 3
    /\ Len(unique_summaries) = 2
    /\ SameListing(dedup_input[1], dedup_input[3])
    /\ ~WithinCeiling(dedup_input[1]) /\ WithinCeiling(dedup_input[3])
    /\ dedup_input[1].photos < dedup_input[3].photos
    /\ dedup_input[1].url # None /\ dedup_input[1].url # dedup_input[3].url
    /\ unique_summaries = <<dedup_input[2], dedup_input[1]>>

\* ---- run_ingestion_job ----
\* How many runs a behaviour makes.
MaxJobRuns == 1

\* get_active_providers() for INGESTION_SOURCES = "zillow,redfin".
ActiveProviders == <<"zillow", "redfin">>

outside_job_vars == <<persist_vars, diff_vars, learn_vars, alert_vars,
                      fetch_vars, enrich_vars, dedup_vars, further_vars>>

\* What _fetch_summaries can hand back for a source: nothing, one summary,
\* or three of which the third repeats the first.
JobSummary(key, id) == Summary(Some(key), Some(id), None, None, None, 0)
FetchResults(key) ==
    {<<>>,
     <<JobSummary(key, "1")>>,
     <<JobSummary(key, "1"), JobSummary(key, "2"), JobSummary(key, "1")>>}

\* The messages written to last_run_error, and what logger.error is told.
ErrorMessage(kind, source) == [kind |-> kind, source |-> source]
Logged(phase, source) == [phase |-> phase, source |-> source]

\* publish_progress()
publish_progress(state, summary_count, detail_calls, upsert_count) ==
    [state EXCEPT !.last_run_summary_count = summary_count,
                  !.last_run_detail_calls = detail_calls,
                  !.last_run_upsert_count = upsert_count]

\* The outer `except Exception` and the `finally` of the job.
Unhandled_NoFinally(state) ==
    [state EXCEPT !.last_run_error = Some(ErrorMessage("Unhandled error", None))]
Unhandled(state) ==
    [state EXCEPT !.last_run_error = Some(ErrorMessage("Unhandled error", None)),
                  !.last_run_end_time = Some(job_runs),
                  !.is_running = FALSE]
Finished(state) ==
    [state EXCEPT !.last_run_end_time = Some(job_runs), !.is_running = FALSE]

JobInit ==
    /\ JobIdle
    /\ PersistIdle
    /\ DiffIdle
    /\ FurtherIdle
    /\ LearnIdle
    /\ AlertIdle
    /\ FetchIdle
    /\ EnrichIdle
    /\ DedupIdle

\* Lines 251-267: the flag, the reset of the counters, the provider list.
StartJob ==
    /\ job_pc \in {"idle", "done"}
    /\ job_runs < MaxJobRuns
    /\ job_runs' = job_runs + 1
    /\ ingestion_state' = [is_running |-> TRUE,
                           last_run_start_time |-> Some(job_runs + 1),
                           last_run_end_time |-> None,
                           last_run_summary_count |-> 0,
                           last_run_detail_calls |-> 0,
                           last_run_upsert_count |-> 0,
                           last_run_error |-> None]
    /\ job_pc' = "construct"
    /\ provider_index' = 1
    /\ provider_summaries' = <<>>
    /\ provider_enriched' = <<>>
    /\ propagating' = FALSE
    /\ summary_count_total' = 0
    /\ detail_calls_total' = 0
    /\ upsert_total' = 0
    /\ all_enriched' = <<>>
    /\ fetched_from' = <<>>
    /\ details_fetched' = [p \in DOMAIN ActiveProviders |-> {}]
    /\ upserted' = <<>>
    /\ error_log' = <<>>
    /\ alerts_processed' = FALSE
    /\ UNCHANGED outside_job_vars

\* Line 275: provider = spec.factory(), outside the per-provider try.
Construct(raises) ==
    /\ job_pc = "construct"
    /\ provider_summaries' = <<>>
    /\ provider_enriched' = <<>>
    /\ IF raises
       THEN /\ ingestion_state' = Unhandled(ingestion_state)
            /\ error_log' = Append(error_log,
                                Logged("construct", ActiveProviders[provider_index]))
            /\ job_pc' = "done"
       ELSE /\ job_pc' = "fetch"
            /\ UNCHANGED <<ingestion_state, error_log>>
    /\ UNCHANGED <<job_runs, provider_index, propagating, summary_count_total,
                   detail_calls_total, upsert_total, all_enriched, fetched_from,
                   details_fetched, upserted, alerts_processed, outside_job_vars>>

\* Lines 279-311: _fetch_summaries under wait_for.  `reported` items went
\* through on_summary_batch before the call returned, timed out or raised.
FetchSummaries(outcome, fetched, reported) ==
    /\ job_pc = "fetch"
    /\ outcome = "ok" => reported = Len(fetched)
    /\ LET key == ActiveProviders[provider_index]
           kept == IF outcome = "ok" THEN fetched ELSE <<>>
           counted == publish_progress(ingestion_state,
                                       summary_count_total + reported,
                                       detail_calls_total, upsert_total)
       IN  /\ fetched_from' = Append(fetched_from,
                                     [source |-> key, items |-> reported])
           /\ summary_count_total' = summary_count_total + reported
           /\ provider_summaries' = kept
           /\ ingestion_state' =
                 CASE outcome = "timeout" ->
                        [counted EXCEPT !.last_run_error =
                            Some(ErrorMessage("Timeout during summary fetch", Some(key)))]
                   [] outcome = "raise" ->
                        [counted EXCEPT !.last_run_error =
                            Some(ErrorMessage("Failed during summary fetch", Some(key)))]
                   [] OTHER -> counted
           /\ error_log' = IF outcome = "ok" THEN error_log
                           ELSE Append(error_log, Logged("summary fetch", key))
           /\ job_pc' = IF kept # <<>> THEN "enrich" ELSE "close"
    /\ UNCHANGED <<job_runs, provider_index, provider_enriched, propagating,
                   detail_calls_total, upsert_total, all_enriched,
                   details_fetched, upserted, alerts_processed, outside_job_vars>>

\* What _enrich_summaries returns for the ordered unique summaries when the
\* details of the candidates in `arrived` came back.
EnrichedRecords(unique, arrived) ==
    [i \in 1..Len(unique) |->
        Merge(unique[i],
              IF i \in arrived THEN DetailsFor(DetailId(unique[i])[1])
              ELSE EmptyDict)]

\* provider_enriched after wait_for raised TimeoutError: the assignment at
\* line 359 did not happen, the list is still the one of line 277.
EnrichedAfterTimeout(unique, arrived) == <<>>

\* Lines 313-375: deduplication, ordering and _enrich_summaries under
\* wait_for.  `arrived` are the candidates whose details had come back when
\* the call returned, timed out or raised.
Enrich(outcome, arrived) ==
    /\ job_pc = "enrich"
    /\ LET key == ActiveProviders[provider_index]
           deduplicated == Deduplicate(provider_summaries, {}, 1)
           unique == Prioritize(deduplicated, Len(deduplicated), price_max)
           candidates == Range(DetailCandidates(unique, TRUE))
           calls == detail_calls_total + Cardinality(candidates)
           counted == publish_progress(ingestion_state, summary_count_total,
                                       calls, upsert_total)
       IN  /\ arrived \subseteq candidates
           /\ outcome = "timeout" => arrived # candidates
           /\ detail_calls_total' = calls
           /\ details_fetched' =
                 [details_fetched EXCEPT ![provider_index] =
                     {DetailId(unique[i])[1] : i \in arrived}]
           /\ provider_enriched' =
                 CASE outcome = "ok" -> EnrichedRecords(unique, arrived)
                   [] outcome = "timeout" -> EnrichedAfterTimeout(unique, arrived)
                   [] OTHER -> <<>>
           /\ ingestion_state' =
                 IF outcome = "timeout"
                 THEN [counted EXCEPT !.last_run_error =
                          Some(ErrorMessage("Timeout during enrichment", Some(key)))]
                 ELSE counted
           /\ error_log' = IF outcome = "timeout"
                           THEN Append(error_log,
                                       Logged("enrichment timeout", key))
                           ELSE error_log
           /\ propagating' = (outcome = "raise")
    /\ job_pc' = "close"
    /\ UNCHANGED <<job_runs, provider_index, provider_summaries,
                   summary_count_total, upsert_total, all_enriched, fetched_from,
                   upserted, alerts_processed, outside_job_vars>>

\* Lines 376-383: provider.close() in the finally block; a failure is logged.
\* An exception from the enrichment then reaches the outer handler.
Close(raises) ==
    /\ job_pc = "close"
    /\ LET key == ActiveProviders[provider_index]
           closed == IF raises THEN Append(error_log, Logged("close", key))
                     ELSE error_log
       IN  IF propagating
           THEN /\ error_log' = Append(closed, Logged("enrichment error", key))
                /\ ingestion_state' = Unhandled(ingestion_state)
                /\ job_pc' = "done"
           ELSE /\ error_log' = closed
                /\ job_pc' = "upsert"
                /\ UNCHANGED ingestion_state
    /\ propagating' = FALSE
    /\ UNCHANGED <<job_runs, provider_index, provider_summaries,
                   provider_enriched, summary_count_total, detail_calls_total,
                   upsert_total, all_enriched, fetched_from, details_fetched,
                   upserted, alerts_processed, outside_job_vars>>

\* Lines 385-394 and the step to the next provider.
Upsert(raises) ==
    /\ job_pc = "upsert"
    /\ raises => provider_enriched # <<>>
    /\ LET key == ActiveProviders[provider_index]
           last == provider_index = Len(ActiveProviders)
       IN  IF raises
           THEN /\ error_log' = Append(error_log, Logged("upsert", key))
                /\ ingestion_state' = Unhandled(ingestion_state)
                /\ job_pc' = "done"
                /\ UNCHANGED <<upserted, upsert_total, all_enriched,
                               provider_index>>
           ELSE /\ IF provider_enriched # <<>>
                   THEN /\ upserted' = Append(upserted,
                                           [source |-> key,
                                            records |-> provider_enriched])
                        /\ upsert_total' = upsert_total + Len(provider_enriched)
                        /\ ingestion_state' =
                              publish_progress(ingestion_state,
                                  summary_count_total, detail_calls_total,
                                  upsert_total + Len(provider_enriched))
                        /\ all_enriched' = all_enriched \o provider_enriched
                   ELSE UNCHANGED <<upserted, upsert_total, ingestion_state,
                                    all_enriched>>
                /\ provider_index' = IF last THEN provider_index
                                     ELSE provider_index + 1
                /\ job_pc' = IF last THEN "alerts" ELSE "construct"
                /\ UNCHANGED error_log
    /\ UNCHANGED <<job_runs, provider_summaries, provider_enriched, propagating,
                   summary_count_total, detail_calls_total, fetched_from,
                   details_fetched, alerts_processed, outside_job_vars>>

\* Lines 396-421: the final publish_progress, process_listing_alerts when
\* something was enriched (its failure is logged), and the finally block.
Alerts(raises) ==
    /\ job_pc = "alerts"
    /\ raises => all_enriched # <<>>
    /\ alerts_processed' = (all_enriched # <<>>)
    /\ error_log' = IF raises THEN Append(error_log, Logged("alerts", ""))
                    ELSE error_log
    /\ ingestion_state' =
          Finished(publish_progress(ingestion_state, summary_count_total,
                                    detail_calls_total, upsert_total))
    /\ job_pc' = "done"
    /\ UNCHANGED <<job_runs, provider_index, provider_summaries,
                   provider_enriched, propagating, summary_count_total,
                   detail_calls_total, upsert_total, all_enriched, fetched_from,
                   details_fetched, upserted, outside_job_vars>>

FetchOutcomes == {"ok", "timeout", "raise"}

\* The steps of a started job.
JobStep ==
    \/ \E raises \in BOOLEAN : Construct(raises)
    \/ /\ job_pc = "fetch"
       /\ \E outcome \in FetchOutcomes :
             \E fetched \in FetchResults(ActiveProviders[provider_index]) :
                 \E reported \in 0..Len(fetched) :
                     FetchSummaries(outcome, fetched, reported)
    \/ \E outcome \in FetchOutcomes : \E arrived \in SUBSET (1..MAX_DETAIL_CALLS) :
          Enrich(outcome, arrived)
    \/ \E raises \in BOOLEAN : Close(raises)
    \/ \E raises \in BOOLEAN : Upsert(raises)
    \/ \E raises \in BOOLEAN : Alerts(raises)

JobNext == StartJob \/ JobStep
SpecJob == JobInit /\ [][JobNext]_vars

\* The event loop keeps running a started job: every await of the job is
\* bounded by wait_for or returns.
SpecJobFair == SpecJob /\ WF_vars(JobStep)

\* ---- properties of run_ingestion_job ----
ProviderPhases == {"construct", "summary fetch", "enrichment timeout",
                   "enrichment error", "close", "upsert"}
\* The messages that tell of a failure in a phase.
RecordsOf(phase) ==
    CASE phase = "summary fetch" ->
            {"Timeout during summary fetch", "Failed during summary fetch"}
      [] phase = "enrichment timeout" -> {"Timeout during enrichment"}
      [] OTHER -> {"Unhandled error"}
NewlyLogged == {error_log'[i] : i \in (Len(error_log) + 1)..Len(error_log')}

\* C17: a timeout or an exception while one provider is constructed, paged,
\* enriched, closed or persisted is written to last_run_error in that step,
\* and the job does not end before every configured provider was fetched.
C17_IsolationStep ==
    /\ \A entry \in NewlyLogged :
            entry.phase \in ProviderPhases =>
                /\ ingestion_state'.last_run_error # None
                /\ ingestion_state'.last_run_error[1].kind \in RecordsOf(entry.phase)
    /\ job_pc # "done" /\ job_pc' = "done" =>
            [i \in DOMAIN fetched_from' |-> fetched_from'[i].source] = ActiveProviders
C17_Isolation == [][C17_IsolationStep]_vars

TimedOut(p) ==
    Logged("enrichment timeout", ActiveProviders[p]) \in Range(error_log)

\* C18: when the enrichment of a source runs into the provider timeout, the
\* detail fetches that have not completed are aborted and the timeout is
\* written to last_run_error for that source; the records whose details had
\* arrived by then are handed to upsert_listings when the source is
\* persisted.
C18_TimeoutStep ==
    /\ job_pc = "enrich" /\ job_pc' = "close"
       /\ Logged("enrichment timeout", ActiveProviders[provider_index]) \in NewlyLogged =>
            ingestion_state'.last_run_error =
                Some(ErrorMessage("Timeout during enrichment",
                                  Some(ActiveProviders[provider_index])))
    /\ job_pc = "upsert" /\ job_pc' # "upsert" /\ TimedOut(provider_index) =>
            \A id \in details_fetched[provider_index] :
                \E u \in Range(upserted') :
                    /\ u.source = ActiveProviders[provider_index]
                    /\ \E r \in Range(u.records) : r.description = Some(id)
C18_TimeoutKeeps == [][C18_TimeoutStep]_vars

\* C19: a started run always comes to its end, with is_running false and
\* last_run_end_time set, whatever the providers return, time out on or
\* raise; at every moment the counters are the number of items the page
\* requests delivered and the number of records handed to upsert_listings
\* so far, and they stay so when the run ends after a failure.
CountersReport ==
    /\ ingestion_state.last_run_summary_count =
            SumSeq([i \in DOMAIN fetched_from |-> fetched_from[i].items])
    /\ ingestion_state.last_run_upsert_count =
            SumSeq([i \in DOMAIN upserted |-> Len(upserted[i].records)])
    /\ job_pc = "done" <=> (job_runs > 0 /\ ~ingestion_state.is_running)
    /\ job_pc = "done" => ingestion_state.last_run_end_time = Some(job_runs)
    /\ job_pc \notin {"idle", "done"} =>
            /\ ingestion_state.is_running
            /\ ingestion_state.last_run_end_time = None
--------------------------------------------------------------------------
(* upsert_listings on a batch: one commit or one rollback per record       *)
(* (persistence.py 183-332).  The database holds two listings; a record    *)
(* names the listing it belongs to, and the commit of a record either      *)
(* succeeds or is rejected by the database (a UNIQUE listing_id, a lock).  *)

AroundAlertsIdle == PersistIdle /\ DiffIdle /\ LearnIdle /\ IngestIdle
BesideSendAndAlertsIdle ==
    /\ BatchIdle
    /\ FlagIdle
    /\ MatchIdle
    /\ SemIdle
    /\ RaceIdle
    /\ TriggerIdle

EarlierIdle == PersistIdle /\ DiffIdle /\ LearnIdle /\ LaterIdle
BesideBatchIdle ==
    /\ EarlierIdle
    /\ FlagIdle
    /\ MatchIdle
    /\ SemIdle
    /\ RaceIdle
    /\ SendIdle
    /\ TriggerIdle
BesideFlagIdle ==
    /\ EarlierIdle
    /\ BatchIdle
    /\ MatchIdle
    /\ SemIdle
    /\ RaceIdle
    /\ SendIdle
    /\ TriggerIdle
BesideMatchIdle ==
    /\ EarlierIdle
    /\ BatchIdle
    /\ FlagIdle
    /\ SemIdle
    /\ RaceIdle
    /\ SendIdle
    /\ TriggerIdle
BesideSemIdle ==
    /\ EarlierIdle
    /\ BatchIdle
    /\ FlagIdle
    /\ MatchIdle
    /\ RaceIdle
    /\ SendIdle
    /\ TriggerIdle
BesideRaceIdle ==
    /\ EarlierIdle
    /\ BatchIdle
    /\ FlagIdle
    /\ MatchIdle
    /\ SemIdle
    /\ SendIdle
    /\ TriggerIdle
BesideSendIdle ==
    /\ EarlierIdle
    /\ BatchIdle
    /\ FlagIdle
    /\ MatchIdle
    /\ SemIdle
    /\ RaceIdle
    /\ TriggerIdle
BesideTriggerIdle ==
    /\ EarlierIdle
    /\ BatchIdle
    /\ FlagIdle
    /\ MatchIdle
    /\ SemIdle
    /\ RaceIdle
    /\ SendIdle

ListingKeys == {"a", "b"}
CommitOutcomes == {"ok", "raises"}
BatchLengths == 0..3

EmptyListing == Db(None, 0, None, 0)

BatchData ==
    {Record(AllKeys, p, Some(Raw("active", FALSE, FALSE)), Some(7), <<3>>,
            Some(<<"c">>)) : p \in {Some(100), Some(200)}}
    \cup {Record(AllKeys \ {"url"}, Some(100), Some(Raw("active", FALSE, FALSE)),
                 Some(7), <<3>>, Some(<<"c">>)),
          Record(AllKeys \ {"address"}, Some(100),
                 Some(Raw("active", FALSE, FALSE)), Some(7), <<3>>, Some(<<"c">>))}

BatchItems == [key : ListingKeys, data : BatchData, commit : CommitOutcomes]

\* Rollback without effect: what the session holds stays and is written by
\* the next commit.
Rollback_Missing(committed, staged) == staged

\* persistence.py 326-327: db.rollback() drops the pending rows and expires
\* the changed attributes; the database is as the last commit left it.
Rollback(committed, staged) == committed

\* persistence.py 184-185: the record is skipped before the try block.
Skipped(item) == Get(item.data, "address") = None

\* persistence.py 292-294: the flush of a new row without url raises.
FlushRaises(db, item) ==
    db[item.key].listing = None /\ ~("url" \in item.data.keys)

\* The record ends in the except branch (persistence.py 326-332).
RecordRaises(db, item) ==
    ~Skipped(item) /\ (FlushRaises(db, item) \/ item.commit = "raises")

\* persistence.py 183-332 for one record of the batch.
UpsertItem(db, item) ==
    LET committed == db[item.key]
        staged == UpsertOne(committed, item.data)
    IN  [db EXCEPT ![item.key] =
            IF RecordRaises(db, item) THEN Rollback(committed, staged)
            ELSE staged]

\* The database before and after every record of the batch.
RECURSIVE UpsertLog(_, _)
UpsertLog(db, items) ==
    IF items = <<>> THEN <<>>
    ELSE LET after == UpsertItem(db, Head(items))
         IN  <<[item |-> Head(items), raised |-> RecordRaises(db, Head(items)),
                before |-> db, after |-> after]>>
             \o UpsertLog(after, Tail(items))

\* The listings as earlier upserts left them: none, or created at 100.
BatchInit ==
    /\ batch_db \in [ListingKeys ->
                        {EmptyListing,
                         UpsertOne(EmptyListing,
                                   Record(AllKeys, Some(100),
                                          Some(Raw("active", FALSE, FALSE)),
                                          Some(7), <<3>>, Some(<<"c">>)))}]
    /\ batch_input = None
    /\ batch_log = <<>>
    /\ BesideBatchIdle

\* upsert_listings(listings) with a batch of records.
upsert_batch(items) ==
    /\ batch_input = None
    /\ batch_input' = Some(items)
    /\ batch_log' = UpsertLog(batch_db, items)
    /\ batch_db' = IF items = <<>> THEN batch_db
                   ELSE UpsertLog(batch_db, items)[Len(items)].after
    /\ UNCHANGED beside_batch_vars

BatchNext ==
    \E n \in BatchLengths : \E items \in [1..n -> BatchItems] : upsert_batch(items)

SpecBatch == BatchInit /\ [][BatchNext]_vars

\* What the commit of a record leaves of its listing: the row, and when the
\* hash differs from the latest snapshot's, one more snapshot and its events.
CommittedAsOwn(before, after, data) ==
    LET row == IF before.listing # None THEN UpdatedRow(before.listing[1], data)
               ELSE CreatedRow(data)
        snap == _build_snapshot(row)
        hash == _snapshot_hash(snap)
        old == before.latest_snapshot
    IN  /\ after.listing = Some(row)
        /\ IF old = None \/ old[1].snapshot_hash # hash
           THEN /\ after.snapshot_count = before.snapshot_count + 1
                /\ after.latest_snapshot
                     = Some([snapshot_hash |-> hash, snapshot_data |-> snap])
                /\ after.added = before.added
                     \o _build_events(IF old = None THEN None
                                      ELSE Some(old[1].snapshot_data), snap)
           ELSE /\ after.snapshot_count = before.snapshot_count
                /\ after.latest_snapshot = old
                /\ after.added = before.added

\* C21: when persisting one record of a batch raises, the listing change,
\* the snapshot and the events of that record are rolled back together (the
\* database is as it was before the record), and every other record of the
\* batch that has an address is committed with its own snapshot and events;
\* what the call leaves is what the last record left.
C21_BatchIsolation ==
    batch_input # None =>
        /\ Len(batch_log) = Len(batch_input[1])
        /\ \A i \in DOMAIN batch_log :
              LET r == batch_log[i]
              IN  /\ r.item = batch_input[1][i]
                  /\ i > 1 => r.before = batch_log[i - 1].after
                  /\ \A k \in ListingKeys \ {r.item.key} : r.after[k] = r.before[k]
                  /\ IF r.raised \/ Skipped(r.item)
                     THEN r.after = r.before
                     ELSE CommittedAsOwn(r.before[r.item.key],
                                         r.after[r.item.key], r.item.data)
        /\ batch_log # <<>> => batch_db = batch_log[Len(batch_log)].after

\* A batch of three records of one listing: the first is committed at 100,
\* the second (200) is rejected at commit, the third (200) is committed.
C21_Witness ==
    /\ Len(batch_log) = 3
    /\ \A i \in 1..3 : batch_log[i].item.key = "a"
    /\ batch_log[1].before["a"].listing = None
    /\ ~batch_log[1].raised /\ batch_log[1].after["a"].snapshot_count = 1
    /\ batch_log[2].raised /\ batch_log[2].item.commit = "raises"
    /\ batch_log[2].item.data.price = Some(200)
    /\ batch_log[2].after["a"].listing[1].price = Some(100)
    /\ batch_log[2].after["a"].snapshot_count = 1
    /\ ~batch_log[3].raised
    /\ batch_db["a"].snapshot_count = 2
    /\ batch_db["a"].listing[1].price = Some(200)
    /\ CountType(batch_db["a"].added, "price_increase") = 1

--------------------------------------------------------------------------
(* upsert_listings: the record's `flags` and the boolean keyword columns   *)
(* (persistence.py 226-295).  A record is the sequence of its items in     *)
(* dict order; of the columns has_parking_keywords and has_view_keywords   *)
(* are followed, of the flags `parking`, `view` and `doorman_concierge`.   *)

FlagNames == {"parking", "view", "doorman_concierge"}
FlagColumns == {"has_parking_keywords", "has_view_keywords"}

\* persistence.py 229-250 (the entries for the flags of the model).
valid_flags == [parking |-> "has_parking_keywords", view |-> "has_view_keywords"]

\* extract_flags (nlp.py 523-583): a dict from flag names to booleans.
FlagDicts == UNION {[names -> BOOLEAN] : names \in SUBSET FlagNames}

Item(k, v) == [k |-> k, v |-> v]

\* The records: has_parking_keywords absent or given, `flags` absent or
\* given, in either order.
FlagRecords ==
    {<<>>}
    \cup {<<Item("has_parking_keywords", b)>> : b \in BOOLEAN}
    \cup {<<Item("flags", f)>> : f \in FlagDicts}
    \cup {<<Item("has_parking_keywords", b), Item("flags", f)>> :
             b \in BOOLEAN, f \in FlagDicts}
    \cup {<<Item("flags", f), Item("has_parking_keywords", b)>> :
             b \in BOOLEAN, f \in FlagDicts}

HasKey(data, k) == \E i \in DOMAIN data : data[i].k = k
ValueOf(data, k) == data[CHOOSE i \in DOMAIN data : data[i].k = k].v

\* persistence.py 226: data.get("flags") or {}
FlagsOf(data) == IF HasKey(data, "flags") THEN ValueOf(data, "flags") ELSE <<>>

\* The flags written to the columns: for fk, fv in flags.items(): if fk in
\* valid_flags (257-260, 281-283).
WithFlags(columns, flags) ==
    [c \in DOMAIN columns |->
        IF \E fk \in DOMAIN flags \cap DOMAIN valid_flags : valid_flags[fk] = c
        THEN flags[CHOOSE fk \in DOMAIN flags \cap DOMAIN valid_flags :
                       valid_flags[fk] = c]
        ELSE columns[c]]

\* persistence.py 280-292 and models/listing.py 48-49: record_attrs is the
\* record without `flags`, then every valid flag is written over it; a
\* column that is then still missing takes the column default False.
CreatedColumns(data) ==
    LET record_attrs == [c \in FlagColumns |->
                            IF HasKey(data, c) THEN Some(ValueOf(data, c))
                            ELSE None]
        flagged == WithFlags(record_attrs,
                             [fk \in DOMAIN FlagsOf(data) |-> Some(FlagsOf(data)[fk])])
    IN  [c \in FlagColumns |-> IF flagged[c] = None THEN FALSE ELSE flagged[c][1]]

\* persistence.py 255-265: the items of the record in dict order, `flags`
\* writing every valid flag, any other key writing its own column.
RECURSIVE UpdatedColumns(_, _, _)
UpdatedColumns(columns, data, flags) ==
    IF data = <<>> THEN columns
    ELSE LET it == Head(data)
             next == IF it.k = "flags" THEN WithFlags(columns, flags)
                     ELSE [columns EXCEPT ![it.k] = it.v]
         IN  UpdatedColumns(next, Tail(data), flags)

ExistingColumns == [FlagColumns -> BOOLEAN]

FlagInit ==
    /\ flag_existing \in {None} \cup {Some(r) : r \in ExistingColumns}
    /\ flag_data \in FlagRecords
    /\ flag_listing = None
    /\ flag_pc = "call"
    /\ BesideFlagIdle

\* upsert_listings([data]) as far as the keyword columns go.
upsert_flags ==
    /\ flag_pc = "call"
    /\ flag_listing' =
           IF flag_existing # None
           THEN Some(UpdatedColumns(flag_existing[1], flag_data, FlagsOf(flag_data)))
           ELSE Some(CreatedColumns(flag_data))
    /\ flag_pc' = "done"
    /\ UNCHANGED <<flag_existing, flag_data, beside_flag_vars>>

SpecFlags == FlagInit /\ [][upsert_flags]_vars

\* C22: a boolean column that the record sets explicitly to True is still
\* True after the upsert when the corresponding flag of the record is False,
\* for a created and for an updated listing.
C22_ExplicitWins ==
    (/\ flag_pc = "done"
     /\ HasKey(flag_data, "has_parking_keywords")
     /\ ValueOf(flag_data, "has_parking_keywords") = TRUE
     /\ "parking" \in DOMAIN FlagsOf(flag_data)
     /\ FlagsOf(flag_data)["parking"] = FALSE)
    => flag_listing[1]["has_parking_keywords"] = TRUE

--------------------------------------------------------------------------
(* PropertyMatcher.find_matches for one listing (advanced_matching.py      *)
(* 457-545) with include_intelligence and no vibe preset.  A coordinate    *)
(* is a number of thousandths of a degree, a score a number of             *)
(* thousandths of a point.                                                 *)

\* geospatial.py 316-318 and 214-216: the bounding boxes.
_is_in_sf(lat, lon) ==
    37707 <= lat /\ lat <= 37830 /\ 0 - 122515 <= lon /\ lon <= 0 - 122355
_is_in_nyc(lat, lon) ==
    40620 <= lat /\ lat <= 40800 /\ 0 - 74050 <= lon /\ lon <= 0 - 73900

\* geospatial.py 365-460: what the distances to the noise sources of a
\* covered city leave of 100 points.
AreaScores == {20, 100}

\* geospatial.py 340-363 (and the score of a covered location).
calculate_tranquility_score(lat, lon, area_score) ==
    IF lat = None \/ lon = None THEN [score |-> Some(50)]
    ELSE IF _is_in_sf(lat[1], lon[1]) \/ _is_in_nyc(lat[1], lon[1])
         THEN [score |-> Some(area_score)]
         ELSE [score |-> None]

\* Python truthiness of an Optional number: `if listing.lat and listing.lon`.
Truthy(x) == x # None /\ x[1] # 0

\* nlp.py 728-790 for a description without light keywords and a listing
\* without light flags: 50 points and the photo heuristic.
estimate_light_potential(photo_count) ==
    50 + (IF photo_count >= 15 THEN 5 ELSE IF photo_count >= 10 THEN 3 ELSE 0)

tranquility_weight == 6
visual_quality_weight == 8

\* advanced_matching.py 457-545: the body of the loop for one listing;
\* `base` is what _calculate_match_score returned for it.
score_one(l) ==
    LET has_location == Truthy(l.lat) /\ Truthy(l.lon)
        tranquility == calculate_tranquility_score(l.lat, l.lon, l.area_score)
    IN  IF has_location /\ tranquility.score = None
        THEN [raised |-> "TypeError", score |-> None, intelligence |-> {}]
        ELSE LET s1 == IF has_location
                       THEN Min(100000, l.base
                                + tranquility.score[1] * tranquility_weight * 3)
                       ELSE l.base
                 light == estimate_light_potential(
                              IF l.photos = None THEN 0 ELSE l.photos[1])
                 s2 == IF l.visual_quality_score = None THEN s1
                       ELSE LET bonus == (l.visual_quality_score[1]
                                           * visual_quality_weight * 25) \div 10
                                red_flags == IF l.visual_assessment = None THEN 0
                                             ELSE l.visual_assessment[1].red_flags
                            IN  Max(0, Min(100000, s1 + bonus) - red_flags * 3000)
             IN  [raised |-> "", score |-> Some(s2),
                  intelligence |->
                      (IF has_location THEN {"tranquility"} ELSE {})
                      \cup {"light_potential", "recency", "narrative"}
                      \cup (IF l.visual_quality_score = None THEN {}
                            ELSE {"visual_quality"})]

\* The listings: a location in San Francisco, in New York, in Chicago, at
\* latitude 0, or none; photos, visual score and assessment present or not.
MatchCoordinates ==
    {[lat |-> None, lon |-> None],
     [lat |-> Some(37760), lon |-> Some(0 - 122430)],
     [lat |-> Some(40710), lon |-> Some(0 - 74000)],
     [lat |-> Some(41880), lon |-> Some(0 - 87630)],
     [lat |-> Some(0), lon |-> Some(0 - 122430)],
     [lat |-> Some(37760), lon |-> None]}
MatchScores == {0, 50000, 99000}
MatchListings ==
    {[lat |-> c.lat, lon |-> c.lon, area_score |-> a, base |-> b,
      photos |-> ph, visual_quality_score |-> v, visual_assessment |-> va] :
        c \in MatchCoordinates, a \in AreaScores, b \in MatchScores,
        ph \in {None, Some(0), Some(12)},
        v \in {None, Some(0), Some(80)},
        va \in {None, Some([red_flags |-> 0]), Some([red_flags |-> 2])}}

MatchInit ==
    /\ match_listing \in MatchListings
    /\ match_result = <<>>
    /\ match_pc = "call"
    /\ BesideMatchIdle

find_matches ==
    /\ match_pc = "call"
    /\ match_result' = score_one(match_listing)
    /\ match_pc' = "done"
    /\ UNCHANGED <<match_listing, beside_match_vars>>

SpecMatch == MatchInit /\ [][find_matches]_vars

\* C23: find_matches returns a result without raising for every listing,
\* whichever of its fields or cached intelligence values are missing or
\* null, and a missing value adds nothing to the score: without a location
\* and without a visual score the score is the base score.
C23_NeverRaises ==
    match_pc = "done" =>
        /\ match_result.raised = ""
        /\ (~(Truthy(match_listing.lat) /\ Truthy(match_listing.lon))
            /\ match_listing.visual_quality_score = None)
           => match_result.score = Some(match_listing.base)

--------------------------------------------------------------------------
(* _enrich_summaries: the fetch_detail tasks and the semaphore             *)
(* (ingestion.py 90-93, 122-168).  Time is counted in ticks; a call is in  *)
(* flight from the moment its task holds the semaphore and has called      *)
(* provider.get_details until wait_for hands back a result, an exception   *)
(* or its timeout.                                                         *)

\* settings.INGESTION_DETAIL_CONCURRENCY and
\* settings.INGESTION_DETAIL_REQUEST_TIMEOUT_SECONDS (in ticks).
DetailConcurrencySettings == {0, 1, 2}
INGESTION_DETAIL_REQUEST_TIMEOUT_SECONDS == 2

\* How many detail candidates the call has (at most MAX_DETAIL_CALLS).
TaskCounts == 1..3

\* ingestion.py 92: max(1, settings.INGESTION_DETAIL_CONCURRENCY)
detail_concurrency(setting) == Max(1, setting)

\* `async with semaphore` that lets every task in.
CanAcquire_Always(value) == TRUE

\* ingestion.py 127: `async with semaphore` enters when the value of the
\* semaphore is positive.
CanAcquire(value) == value > 0

InFlight == {i \in DOMAIN call_state : call_state[i] = "in_flight"}

SemInit ==
    /\ concurrency_setting \in DetailConcurrencySettings
    /\ permits = detail_concurrency(concurrency_setting)
    /\ \E n \in TaskCounts : call_state = [i \in 1..n |-> "waiting"]
    /\ call_elapsed = [i \in DOMAIN call_state |-> 0]
    /\ BesideSemIdle

\* Lines 127-129: the task enters the semaphore, calls get_details and
\* wait_for starts the clock of this call.
StartCall(i) ==
    /\ call_state[i] = "waiting"
    /\ CanAcquire(permits)
    /\ permits' = permits - 1
    /\ call_state' = [call_state EXCEPT ![i] = "in_flight"]
    /\ call_elapsed' = [call_elapsed EXCEPT ![i] = 0]
    /\ UNCHANGED <<concurrency_setting, beside_sem_vars>>

\* Lines 128-146: get_details returns or raises before the timeout; the
\* semaphore is released on the way out.
EndCall(i, outcome) ==
    /\ call_state[i] = "in_flight"
    /\ permits' = permits + 1
    /\ call_state' = [call_state EXCEPT ![i] = outcome]
    /\ UNCHANGED <<concurrency_setting, call_elapsed, beside_sem_vars>>

\* Lines 128-138: wait_for cancels the call whose clock has reached the
\* timeout and raises TimeoutError in its task only.
CallTimesOut(i) ==
    /\ call_state[i] = "in_flight"
    /\ call_elapsed[i] = INGESTION_DETAIL_REQUEST_TIMEOUT_SECONDS
    /\ permits' = permits + 1
    /\ call_state' = [call_state EXCEPT ![i] = "timeout"]
    /\ UNCHANGED <<concurrency_setting, call_elapsed, beside_sem_vars>>

\* One tick passes for every call in flight; the timer of wait_for fires
\* before time passes its deadline.
Tick ==
    /\ InFlight # {}
    /\ \A i \in InFlight :
          call_elapsed[i] < INGESTION_DETAIL_REQUEST_TIMEOUT_SECONDS
    /\ call_elapsed' = [i \in DOMAIN call_elapsed |->
                           IF i \in InFlight THEN call_elapsed[i] + 1
                           ELSE call_elapsed[i]]
    /\ UNCHANGED <<concurrency_setting, permits, call_state, beside_sem_vars>>

\* Lines 163-168: the call is cancelled from outside; every task that is
\* not done is cancelled and leaves the semaphore.
CancelTasks ==
    /\ \E i \in DOMAIN call_state : call_state[i] \in {"waiting", "in_flight"}
    /\ permits' = permits + Cardinality(InFlight)
    /\ call_state' = [i \in DOMAIN call_state |->
                         IF call_state[i] \in {"waiting", "in_flight"}
                         THEN "cancelled" ELSE call_state[i]]
    /\ UNCHANGED <<concurrency_setting, call_elapsed, beside_sem_vars>>

SemNext ==
    \/ \E i \in DOMAIN call_state : StartCall(i)
    \/ \E i \in DOMAIN call_state, outcome \in {"details", "error"} :
          EndCall(i, outcome)
    \/ \E i \in DOMAIN call_state : CallTimesOut(i)
    \/ Tick
    \/ CancelTasks

SpecSem == SemInit /\ [][SemNext]_vars

\* C24: at every moment the number of get_details calls in flight is at
\* most max(1, INGESTION_DETAIL_CONCURRENCY), and every call has its own
\* timeout: its clock starts when the call starts, not while its task waits
\* for the semaphore, it never runs past the timeout, and a call is timed
\* out only when its own clock has reached the timeout.
C24_BoundedCalls ==
    /\ Cardinality(InFlight) <= Max(1, concurrency_setting)
    /\ \A i \in DOMAIN call_state :
          /\ call_elapsed[i] <= INGESTION_DETAIL_REQUEST_TIMEOUT_SECONDS
          /\ call_state[i] = "waiting" => call_elapsed[i] = 0
          /\ call_state[i] = "timeout"
                => call_elapsed[i] = INGESTION_DETAIL_REQUEST_TIMEOUT_SECONDS

\* Three candidates at concurrency 2: one call has timed out, a call that
\* started later is still in flight within its own timeout, and the third
\* is in flight as well.
C24_Witness ==
    /\ concurrency_setting = 2
    /\ DOMAIN call_state = 1..3
    /\ call_state[1] = "timeout"
    /\ call_state[2] = "in_flight" /\ call_elapsed[2] = 2
    /\ call_state[3] = "in_flight" /\ call_elapsed[3] = 1
    /\ permits = 0

--------------------------------------------------------------------------
(* Two upsert_listings executions on the same listing at the same time:    *)
(* the ingestion job on the event loop or the scheduler thread, and the    *)
(* scrape job on a worker thread of the admin route (routes/admin.py       *)
(* 18-21, scraper.py 179-185).  Each execution has its own session         *)
(* (persistence.py 180); between its queries (201-225) and its commit      *)
(* (323) the other execution may run.                                      *)

Executions == {1, 2}

RaceData ==
    {Record(AllKeys, p, Some(Raw("active", FALSE, FALSE)), Some(7), <<3>>,
            Some(<<"c">>)) : p \in {Some(100), Some(200)}}
    \cup {Record(AllKeys, Some(200), Some(Raw("pending", FALSE, FALSE)), Some(7),
                 <<3>>, Some(<<"c">>))}

\* The listing as an earlier upsert at 100 left it.
ListedAt100 ==
    UpsertOne(EmptyListing,
              Record(AllKeys, Some(100), Some(Raw("active", FALSE, FALSE)),
                     Some(7), <<3>>, Some(<<"c">>)))

RaceInit ==
    /\ race_db \in {EmptyListing, ListedAt100}
    /\ race_history = IF race_db.latest_snapshot = None THEN <<>>
                      ELSE <<race_db.latest_snapshot[1]>>
    /\ race_data \in [Executions -> RaceData]
    /\ race_local = [p \in Executions |-> None]
    /\ race_pc = [p \in Executions |-> "read"]
    /\ BesideRaceIdle

\* persistence.py 201-225: the queries for the existing row and for its
\* latest snapshot.
ReadListing(p) ==
    /\ race_pc[p] = "read"
    /\ race_local' = [race_local EXCEPT ![p] =
                         Some([existing |-> race_db.listing,
                               old_snapshot |-> IF race_db.listing # None
                                                THEN race_db.latest_snapshot
                                                ELSE None])]
    /\ race_pc' = [race_pc EXCEPT ![p] = "write"]
    /\ UNCHANGED <<race_db, race_history, race_data, beside_race_vars>>

\* persistence.py 254-332: the row is changed or created, the snapshot is
\* compared with the one that was read, snapshot and events are added and
\* committed.  The INSERT of a row that the other execution has created in
\* the meantime violates UNIQUE(listing_id) (models/listing.py 19): the
\* record is rolled back.
WriteListing(p) ==
    /\ race_pc[p] = "write"
    /\ LET local == race_local[p][1]
           data == race_data[p]
       IN  IF local.existing = None /\ race_db.listing # None
           THEN UNCHANGED <<race_db, race_history>>
           ELSE LET row == IF local.existing # None
                           THEN UpdatedRow(local.existing[1], data)
                           ELSE CreatedRow(data)
                    snapshot_data == _build_snapshot(row)
                    snapshot_hash == _snapshot_hash(snapshot_data)
                    snapshot == [snapshot_hash |-> snapshot_hash,
                                 snapshot_data |-> snapshot_data]
                IN  IF SnapshotChanged(local.old_snapshot, snapshot_hash)
                    THEN LET evs == _build_events(
                                        IF local.old_snapshot # None
                                        THEN Some(local.old_snapshot[1].snapshot_data)
                                        ELSE None, snapshot_data)
                         IN  /\ race_db' =
                                   [listing |-> Some(row),
                                    snapshot_count |-> race_db.snapshot_count + 1,
                                    latest_snapshot |-> Some(snapshot),
                                    new_listing_events |->
                                        race_db.new_listing_events
                                        + CountType(evs, "new_listing"),
                                    added |-> race_db.added \o evs]
                             /\ race_history' = Append(race_history, snapshot)
                    ELSE /\ race_db' = [race_db EXCEPT !.listing = Some(row)]
                         /\ UNCHANGED race_history
    /\ race_pc' = [race_pc EXCEPT ![p] = "done"]
    /\ UNCHANGED <<race_data, race_local, beside_race_vars>>

RaceNext == \E p \in Executions : ReadListing(p) \/ WriteListing(p)

SpecRace == RaceInit /\ [][RaceNext]_vars

\* The events of a history of snapshots in which every snapshot was
\* compared with the one before it.
RECURSIVE EventsOfHistory(_, _)
EventsOfHistory(prev, history) ==
    IF history = <<>> THEN <<>>
    ELSE _build_events(prev, Head(history).snapshot_data)
         \o EventsOfHistory(Some(Head(history).snapshot_data), Tail(history))

\* C25: when two executions process the same listing concurrently, one
\* state change of the listing yields exactly one new snapshot and one set
\* of events: no snapshot repeats the hash of the snapshot before it, and
\* the events are those of the changes from each snapshot to the next.
C25_AtomicPerListing ==
    /\ \A i \in 1..(Len(race_history) - 1) :
          race_history[i].snapshot_hash # race_history[i + 1].snapshot_hash
    /\ race_db.added = EventsOfHistory(None, race_history)
    /\ race_db.snapshot_count = Len(race_history)

--------------------------------------------------------------------------
(* Weight learning over many listings: enough signals on one criterion for *)
(* the clamp of the delta (weight_learning.py 234-238) to act.  Listing i  *)
(* of 1..n is a number; the first `likes` listings are liked and have the  *)
(* LightHome breakdown, the others are disliked and have QuietHome.        *)

LikeCounts == 0..12
DislikeCounts == 0..3

ManyFeedback(likes, dislikes) ==
    [l \in 1..(likes + dislikes) |-> IF l <= likes THEN "like" ELSE "dislike"]
ManyScores(likes, dislikes) ==
    [l \in 1..(likes + dislikes) |-> IF l <= likes THEN LightHome ELSE QuietHome]

\* The weights of a new user, of a user with two recalculations behind (3
\* likes, 2 dislikes), and of a long-standing one.
EarlierWeights ==
    {RecalculatedTimes(None, ManyFeedback(3, 2), ManyScores(3, 2), n) :
        n \in {0, 2, PriorRecalcs}}

ManyInit ==
    /\ result = NoResult
    /\ recalcs = 0
    /\ \E likes \in LikeCounts, dislikes \in DislikeCounts :
          /\ feedback = ManyFeedback(likes, dislikes)
          /\ feature_scores = ManyScores(likes, dislikes)
    /\ learned_weights \in EarlierWeights
    /\ PersistIdle
    /\ DiffIdle
    /\ FurtherIdle
    /\ LaterIdle

ManyNext == \E user_id \in Users : recalculate_user_weights(user_id)

SpecLearnMany == ManyInit /\ [][ManyNext]_vars

Clamp(x, lo, hi) == IF x < lo THEN lo ELSE IF x > hi THEN hi ELSE x

\* Top-three appearances of a criterion among the liked listings minus
\* those among the disliked listings, 0.05 each.
NetDelta(criterion) ==
    50 * Hits(Signals(feedback, feature_scores, "like"), feature_scores, criterion)
    - 50 * Hits(Signals(feedback, feature_scores, "dislike"), feature_scores,
                criterion)

TouchedCriteria ==
    UNION {TopNames(feature_scores[l]) :
              l \in Signals(feedback, feature_scores, "like")
                    \cup Signals(feedback, feature_scores, "dislike")}

StoredMultiplier(lw, criterion) ==
    IF lw # None /\ criterion \in DOMAIN lw[1] THEN lw[1][criterion].multiplier
    ELSE 1000

C26_AdditiveStep ==
    SuccessfulRecalculation =>
        \A criterion \in TouchedCriteria :
            LET before == StoredMultiplier(learned_weights, criterion)
                after == StoredMultiplier(learned_weights', criterion)
            IN  /\ criterion \in DOMAIN learned_weights'[1]
                /\ after = Clamp(before + Clamp(NetDelta(criterion), 0 - 500, 500),
                                 500, 2000)
                /\ Abs(after - before) <= 500

\* C26: for each criterion in the top three of a liked or disliked listing,
\* one successful recalculate_user_weights call stores clamp(stored
\* multiplier or 1.0, + clamp(net delta, -0.5, +0.5), 0.5, 2.0): the stored
\* multiplier moves by at most 0.5 and the delta is added to the stored
\* value.
C26_Additive == [][C26_AdditiveStep]_vars

\* Twelve likes put +0.60 on natural_light; the call moved the multiplier
\* stored at 1.3 to 1.8.
C26_Witness ==
    /\ recalcs = 1 /\ result.weights_updated
    /\ Cardinality(Signals(feedback, feature_scores, "like")) = 12
    /\ NetDelta("natural_light") = 600
    /\ learned_weights[1]["natural_light"].multiplier = 1800

C27_CompletesStep ==
    (RecalculateStep /\ ~GateFails /\ result'.message # "User not found")
    => /\ result'.raised = ""
       /\ result'.weights_updated
       /\ learned_weights' # None
       /\ TouchedCriteria \subseteq DOMAIN learned_weights'[1]

\* C27: for every feedback set that passes the learning gate, a
\* recalculate_user_weights call for the user completes without raising and
\* persists the updated weights, also when the boosts and penalties of a
\* criterion cancel to a net delta of zero.
C27_Completes == [][C27_CompletesStep]_vars

--------------------------------------------------------------------------
(* The two channels of a price_drop event over several invocations         *)
(* (listing_alerts.py 86-106)                                              *)

C28_OneChannelStep ==
    /\ alert_counts["e2"].immediate > 0 =>
           alert_counts'["e2"].digest = alert_counts["e2"].digest
    /\ ~(alert_counts'["e2"].immediate > 0 /\ alert_counts'["e2"].digest > 0)

\* C28: a price_drop event is never alerted on both channels: once it has
\* been put on the immediate list, no later process_listing_alerts
\* invocation puts it on the digest list.
C28_OneChannel == [][C28_OneChannelStep]_vars

\* The price_drop event was put on the immediate list, and a later
\* invocation that covered it with a passing score_listing did not put it
\* on the digest list.
C28_Witness ==
    /\ alert_runs >= 2
    /\ alert_counts["e2"].immediate >= 1
    /\ alert_counts["e2"].digest = 0
    /\ since_time <= AlertEvents["e2"].created_at
    /\ scored[DropListing].default
    /\ _build_alert_payload(DropListing, "Price drop") \notin digest_alerts

--------------------------------------------------------------------------
(* Delivery of the two lists (listing_alerts.py 148-163, alerts.py).       *)
(* send_listing_alerts sends over iMessage or, without it, SMS (alerts.py  *)
(* 257-262).  _send_sms_twilio_sync catches every Exception and answers    *)
(* False (129-150); _send_imessage catches FileNotFoundError and           *)
(* CalledProcessError only (118-126), so any other error of subprocess.run *)
(* leaves send_listing_alerts, which has no handler of its own, and        *)
(* process_listing_alerts, which has only a finally (162-163).             *)

Channels == {"imessage", "sms"}

\* What one send_listing_alerts call can do on a channel.
SendOutcomes(channel) ==
    IF channel = "imessage" THEN {"delivered", "failed", "raises"}
    ELSE {"delivered", "failed"}

SendCall(alert_type, alerts, outcome) ==
    [alert_type |-> alert_type, alerts |-> alerts, outcome |-> outcome]

\* Lines 148-153: the calls made for the two lists, in order.
SendCalls(immediate, digest, outcomes) ==
    LET first == IF immediate # {}
                 THEN <<SendCall("immediate", immediate, outcomes.immediate)>>
                 ELSE <<>>
        raised == immediate # {} /\ outcomes.immediate = "raises"
    IN  IF digest # {} /\ ~raised
        THEN first \o <<SendCall("digest", digest, outcomes.digest)>>
        ELSE first

\* The invocations a behaviour of the delivery makes, counted from 0.
SendRuns == 0..1

SendInit ==
    /\ \E percent \in {Some(4), Some(5)} :
           event_details = [e1 |-> None,
                            e2 |-> Some(Details(percent, FALSE, FALSE)),
                            e3 |-> None]
    /\ listing_dom = [l1 |-> Some(45), l2 |-> Some(60)]
    /\ dom_stale_events = [l \in AlertListings |-> 0]
    /\ alert_counts = [e \in DOMAIN AlertEvents |-> [immediate |-> 0, digest |-> 0]]
    /\ immediate_alerts = {}
    /\ digest_alerts = {}
    /\ scored = [l \in AlertListings |-> [default |-> FALSE, immediate |-> FALSE]]
    /\ since_time = 0
    /\ alert_runs = 0
    /\ send_channel \in Channels
    /\ send_calls = <<>>
    /\ send_raised = FALSE
    /\ AroundAlertsIdle
    /\ BesideSendAndAlertsIdle

\* process_listing_alerts with its two send_listing_alerts calls.
process_and_send_listing_alerts(since, scores, outcomes) ==
    /\ alert_runs \in SendRuns
    /\ evaluate_and_commit(since, scores)
    /\ send_calls' = SendCalls(immediate_alerts', digest_alerts', outcomes)
    /\ send_raised' = \E i \in DOMAIN send_calls' : send_calls'[i].outcome = "raises"
    /\ UNCHANGED <<send_channel, around_alerts_vars, beside_send_and_alerts_vars>>

SendNext ==
    \E since \in 1..3, scores \in [AlertListings -> ScoreAnswers],
       outcomes \in [immediate : SendOutcomes(send_channel),
                     digest : SendOutcomes(send_channel)] :
        process_and_send_listing_alerts(since, scores, outcomes)

SpecSend == SendInit /\ [][SendNext]_vars

\* The invocation committed this flag on the event.
FlagCommitted(e, flag) ==
    /\ event_details'[e] # None
    /\ event_details'[e][1][flag]
    /\ event_details[e] = None \/ ~event_details[e][1][flag]

PayloadOf(e) ==
    _build_alert_payload(AlertEvents[e].listing_id,
                         AlertReason(AlertEvents[e].event_type))

PassedTo(alert_type, payload) ==
    \E i \in DOMAIN send_calls' :
        /\ send_calls'[i].alert_type = alert_type
        /\ payload \in send_calls'[i].alerts

C29_CommittedIsSentStep ==
    /\ \A e \in DOMAIN AlertEvents :
           /\ FlagCommitted(e, "alerted_immediate") =>
                  PassedTo("immediate", PayloadOf(e))
           /\ FlagCommitted(e, "alerted_digest") =>
                  PassedTo("digest", PayloadOf(e))
    /\ \A l \in AlertListings :
           dom_stale_events'[l] > dom_stale_events[l] =>
               PassedTo("digest", _build_alert_payload(l, "DOM"))

\* C29: every alert whose dedup flag or dom_stale event an invocation of
\* process_listing_alerts commits is in a list that the same invocation
\* passes to send_listing_alerts, on the immediate and on the digest list,
\* also when the delivery of the other list fails.
C29_CommittedIsSent == [][C29_CommittedIsSentStep]_vars

--------------------------------------------------------------------------
(* Starting the job over POST /admin/ingestion/run (routes/admin.py        *)
(* 24-29).  The route is a coroutine without an await: its check of        *)
(* is_running and its asyncio.create_task run in one turn of the event     *)
(* loop.  create_task only schedules run_ingestion_job; the job's first    *)
(* statement, is_running = True (ingestion.py 251), runs in a later turn,  *)
(* after the handlers that were already scheduled.  The job then awaits    *)
(* its providers, so other turns run until its finally sets is_running to  *)
(* False (414-417).                                                        *)

Requests == 1..4

\* trigger_ingestion for request r.
trigger_ingestion(r) ==
    /\ trigger_response[r] = "none"
    /\ IF is_running
       THEN /\ trigger_response' = [trigger_response EXCEPT ![r] = "409"]
            /\ UNCHANGED job_task
       ELSE /\ job_task' = [job_task EXCEPT ![r] = "created"]
            /\ trigger_response' = [trigger_response EXCEPT ![r] = "started"]
    /\ UNCHANGED <<is_running, beside_trigger_vars>>

\* The first turn of the task of request r: ingestion.py 250-258.
StartTask(r) ==
    /\ job_task[r] = "created"
    /\ job_task' = [job_task EXCEPT ![r] = "running"]
    /\ is_running' = TRUE
    /\ UNCHANGED <<trigger_response, beside_trigger_vars>>

\* The finally of the task of request r: ingestion.py 414-417.
FinishTask(r) ==
    /\ job_task[r] = "running"
    /\ job_task' = [job_task EXCEPT ![r] = "finished"]
    /\ is_running' = FALSE
    /\ UNCHANGED <<trigger_response, beside_trigger_vars>>

TriggerInit ==
    /\ is_running = IsRunningDefault
    /\ job_task = [r \in Requests |-> "none"]
    /\ trigger_response = [r \in Requests |-> "none"]
    /\ BesideTriggerIdle

TriggerNext ==
    \E r \in Requests :
        \/ trigger_ingestion(r)
        \/ StartTask(r)
        \/ FinishTask(r)

SpecTrigger == TriggerInit /\ [][TriggerNext]_vars

Executing(tasks) == {r \in Requests : tasks[r] = "running"}
InProgress(tasks) == {r \in Requests : tasks[r] \in {"created", "running"}}

C30_SingleRunStep ==
    /\ Cardinality(Executing(job_task')) <= 1
    /\ \A r \in Requests :
           (/\ trigger_response[r] = "none"
            /\ trigger_response'[r] # "none"
            /\ InProgress(job_task) # {}) =>
               /\ trigger_response'[r] = "409"
               /\ job_task'[r] = "none"

\* C30: of the jobs started through trigger_ingestion at most one executes
\* at a time: a trigger that arrives while a run is in progress, also one
\* that arrives after another trigger was accepted and before that
\* trigger's task has set is_running, is answered with 409 and starts no
\* job.
C30_SingleRun == [][C30_SingleRunStep]_vars

====
